---------------------------- MODULE Spec2Model ----------------------------
(***************************************************************************)
(* Verification model of rte-rrtmgp-cpp:                                   *)
(*   - the humidity-bin lookup rh_class (src/src/Aerosol_optics.cpp),      *)
(*   - the flux reduction Fluxes_broadband / Fluxes_byband                 *)
(*     (src/src/Fluxes.cpp),                                               *)
(*   - the aerosol optics lookup compute_all_from_table / aerosol_optics   *)
(*     (src/src/Aerosol_optics.cpp),                                       *)
(*   - the column blocks of solve_radiation                                *)
(*     (src/src_test/test_rte_rrtmgp.cpp),                                 *)
(*   - the source-function holder Source_func_lw_rt                        *)
(*     (src/include_rt/Source_functions_rt.h),                             *)
(*   - the shortwave and longwave solvers declared in                      *)
(*     src/include/rte_kernel_launcher_cuda.h,                             *)
(*   - the try block and the handlers of main                              *)
(*     (src/src_test/test_rte_rrtmgp.cpp).                                 *)
(*                                                                         *)
(* Float values are modelled by integers with exact arithmetic: rounding   *)
(* is not modelled.  Arrays keep the 1-based indexing of Array<T,N>; the   *)
(* std::vector rh2 is 0-based in the code and is the TLA+ sequence rh2     *)
(* whose element i+1 is the code's rh2[i].                                 *)
(*                                                                         *)
(* Each component has its own specification (SpecRh, SpecFlux, SpecAer,    *)
(* SpecDrv, SpecShape, SpecSrc, SpecSw, SpecLw, SpecMain); a               *)
(* specification leaves the variables of the other components at rest.     *)
(***************************************************************************)
EXTENDS Integers, Sequences, FiniteSets, TLC

VARIABLES
    \* ---- rh_class(rel_hum, rh2), one call in progress
    rh2,        \* the threshold vector passed (by value) to rh_class
    rel_hum,    \* the relative humidity passed to rh_class
    ihum,       \* local int ihum (0-based index into rh2)
    rh_class,   \* local Float rh_class (the threshold last read)
    pc_rh,      \* "entry" | "loop" | "done" | "crashed"
    oob,        \* TRUE once rh2 has been read at an index >= rh2.size()
    \* ---- one Fluxes object and the arguments of its reduce calls
    fx_kind,          \* dynamic type: "broadband" | "byband"
    spectral_disc,    \* the spectral discretisation passed to every reduce
    fluxes,           \* the object's fields (flux_up, ..., bnd_flux_net)
    gpt_flux_up,      \* argument of the most recent reduce
    gpt_flux_dn,      \* argument of the most recent reduce
    gpt_flux_dn_dir,  \* argument of the most recent reduce that took one
    fx_last,          \* "none" | "reduce" | "reduce_dir": the most recent call
    \* ---- one Aerosol_optics object and one call of aerosol_optics
    aerosol,          \* this: rh_upper and the six coefficient tables
    aer_in,           \* the arguments aermr01..aermr11, rh, dpg of the call
    optical_props,    \* the target Optical_props_2str: tau, ssa, g
    aer_tmp,          \* the temporaries ltau, ltaussa, ltaussag
    aer_ihum,         \* the local ihum of compute_all_from_table per (icol, ilay)
    pc_aer,           \* "idle" | "done" | "crashed"
    \* ---- solve_radiation: the loop over the column blocks
    n_col,            \* the number of columns of the input
    col_block,        \* the block size (n_col_block, 4 in the code)
    drv_in,           \* the input of every column (profile, boundary conditions)
    drv_b,            \* the loop counter b
    lw_out,           \* the output arrays lw_flux_up, ..., lw_bnd_flux_net
    drv_writes,       \* how often every output column has been written
    drv_calls,        \* the (col_s, col_e) of the call_kernels invocations so far
    pc_drv,           \* "idle" | "blocks" | "left" | "done"
    \* ---- one Source_func_lw_rt object
    sources,          \* the five private members
    src_acc,          \* the accessor last written through ("none" at first)
    src_seen,         \* the accessor last read through, and what it gave
    \* ---- one call of sw_solver_2stream and one of lw_solver_noscat_gaussquad
    sw_in,            \* the arguments tau, ssa, g, mu0, sfc_alb_dir, ... of the call
    sw_flux,          \* the results flux_up, flux_dn, flux_dir
    pc_sw,            \* "idle" | "done"
    lw_in,            \* the arguments secants, weights, tau, lay_source, ...
    lw_flux,          \* the results flux_up, flux_dn
    pc_lw,            \* "idle" | "done"
    \* ---- one run of main
    main_n,           \* the number of call_kernels invocations of the run
    main_pc,          \* "idle" | "try" | "catch_std" | "catch_all" | "returned"
    main_next,        \* the position in the try block: the next step of the run
    main_exc,         \* the exception in flight or handled (NoException at first)
    main_done,        \* the steps of the run executed to their end, in order
    main_out,         \* what print_message has printed, in order
    main_ret          \* the value main returned (NoReturn before it returns)

rhVars == <<rh2, rel_hum, ihum, rh_class, pc_rh, oob>>

fxVars == <<fx_kind, spectral_disc, fluxes, gpt_flux_up, gpt_flux_dn,
            gpt_flux_dn_dir, fx_last>>

aerVars == <<aerosol, aer_in, optical_props, aer_tmp, aer_ihum, pc_aer>>

drvVars == <<n_col, col_block, drv_in, drv_b, lw_out, drv_writes, drv_calls, pc_drv>>

srcVars == <<sources, src_acc, src_seen>>

slvVars == <<sw_in, sw_flux, pc_sw, lw_in, lw_flux, pc_lw>>

mainVars == <<main_n, main_pc, main_next, main_exc, main_done, main_out, main_ret>>

vars == <<rh2, rel_hum, ihum, rh_class, pc_rh, oob,
          fx_kind, spectral_disc, fluxes, gpt_flux_up, gpt_flux_dn,
          gpt_flux_dn_dir, fx_last,
          aerosol, aer_in, optical_props, aer_tmp, aer_ihum, pc_aer,
          n_col, col_block, drv_in, drv_b, lw_out, drv_writes, drv_calls, pc_drv,
          sources, src_acc, src_seen,
          sw_in, sw_flux, pc_sw, lw_in, lw_flux, pc_lw,
          main_n, main_pc, main_next, main_exc, main_done, main_out, main_ret>>

-----------------------------------------------------------------------------
(* Bounds of the model.                                                    *)

\* longest threshold vector enumerated
MaxBins == 3
\* thresholds and humidities are drawn from 0..MaxRh (humidities also MaxRh+1)
MaxRh == 3
\* how many elements past the end the scan may read before the read faults
MaxOverrun == 2
\* columns, levels and spectral points of the flux fields
MaxCol == 2
MaxLev == 2
MaxGpt == 3
\* the spectral fields passed to reduce are GptField(0) .. GptField(MaxSeed)
MaxSeed == 1
\* bands of the aerosol table
MaxBnd == 2
\* most columns of the driver's input, and the block sizes 1..MaxBlock tried
\* besides the block size of the code
MaxNCol == 5
MaxBlock == 3
\* the values written to the source fields are 0..MaxSrc
MaxSrc == 2
\* columns and layers of the solver calls
MaxSlvCol == 2
MaxSlvLay == 2
\* most call_kernels invocations of a run of main
MaxMainBlocks == 3

-----------------------------------------------------------------------------
(* Helpers.                                                                *)

Max(a, b) == IF a >= b THEN a ELSE b

\* non-decreasing sequences: the table keeps its thresholds ascending
IsAscending(s) == \A i \in 1..(Len(s) - 1) : s[i] <= s[i + 1]

SeqsUpTo(S, n) == UNION { [1..k -> S] : k \in 1..n }

\* the thresholds of the spec's example, in units of 1/1000
ExampleTable == <<0, 500, 800, 900, 950, 990>>

\* the humidities of the spec's example, in units of 1/1000
ExampleHums == {850, 900, 999}

RhTables == { s \in SeqsUpTo(0..MaxRh, MaxBins) : IsAscending(s) } \cup {ExampleTable}

RelHums == (0..(MaxRh + 1)) \cup ExampleHums

\* what memory past the end of the vector may hold: something below every
\* humidity and something not below any
GarbageValues == {0, 999}

-----------------------------------------------------------------------------
(* rh_class: src/src/Aerosol_optics.cpp:26-36                              *)

\* while (rh_class < rel_hum)
LoopCondLe(cur, hum) == cur <= hum

LoopCond(cur, hum) == cur < hum

\* rh2[i] for the code's 0-based i is inside the vector
InRange(i, v) == 0 <= i /\ i < Len(v)

RhInit ==
    /\ rh2 \in RhTables
    /\ rel_hum \in RelHums
    /\ ihum = 0
    /\ rh_class = 0
    /\ pc_rh = "entry"
    /\ oob = FALSE

\* int ihum = 0; Float rh_class = rh2[ihum];
RhEntry ==
    /\ pc_rh = "entry"
    /\ ihum' = 0
    /\ rh_class' = rh2[1]
    /\ pc_rh' = "loop"
    /\ UNCHANGED <<rh2, rel_hum, oob>>

\* one iteration of the loop body whose read rh2[ihum] is inside the vector
RhLoopInRange ==
    /\ pc_rh = "loop"
    /\ LoopCond(rh_class, rel_hum)
    /\ InRange(ihum + 1, rh2)
    /\ ihum' = ihum + 1
    /\ rh_class' = rh2[ihum + 2]
    /\ UNCHANGED <<rh2, rel_hum, pc_rh, oob>>

\* one iteration whose read rh2[ihum] is past the end (undefined behaviour):
\* the read yields whatever the memory holds, and the scan goes on
RhLoopOverrunReads ==
    /\ pc_rh = "loop"
    /\ LoopCond(rh_class, rel_hum)
    /\ ~InRange(ihum + 1, rh2)
    /\ ihum + 1 < Len(rh2) + MaxOverrun
    /\ ihum' = ihum + 1
    /\ rh_class' \in GarbageValues
    /\ oob' = TRUE
    /\ UNCHANGED <<rh2, rel_hum, pc_rh>>

\* one iteration whose read rh2[ihum] is past the end and faults
RhLoopOverrunFaults ==
    /\ pc_rh = "loop"
    /\ LoopCond(rh_class, rel_hum)
    /\ ~InRange(ihum + 1, rh2)
    /\ ihum' = ihum + 1
    /\ oob' = TRUE
    /\ pc_rh' = "crashed"
    /\ UNCHANGED <<rh2, rel_hum, rh_class>>

\* the loop condition is false: return ihum;
RhReturn ==
    /\ pc_rh = "loop"
    /\ ~LoopCond(rh_class, rel_hum)
    /\ pc_rh' = "done"
    /\ UNCHANGED <<rh2, rel_hum, ihum, rh_class, oob>>


-----------------------------------------------------------------------------
(* Arrays: Array<T,N> is a record of its extents and its data, indexed     *)
(* from 1 (a.data[i, j] is the code's a({i, j})).                          *)

\* an Array<T,2> of extents {n1, n2} holding f[i, j] at ({i, j})
Array2(n1, n2, f) ==
    [dim |-> <<n1, n2>>,
     data |-> [i \in 1..n1, j \in 1..n2 |-> f[i, j]]]

\* an Array<T,3> of extents {n1, n2, n3} holding f[i, j, k] at ({i, j, k})
Array3(n1, n2, n3, f) ==
    [dim |-> <<n1, n2, n3>>,
     data |-> [i \in 1..n1, j \in 1..n2, k \in 1..n3 |-> f[i, j, k]]]

\* Array<T,N>({n1, ...}): the data starts zeroed
ZeroArray2(n1, n2) == Array2(n1, n2, [i \in 1..n1, j \in 1..n2 |-> 0])

ZeroArray3(n1, n2, n3) ==
    Array3(n1, n2, n3, [i \in 1..n1, j \in 1..n2, k \in 1..n3 |-> 0])

-----------------------------------------------------------------------------
(* The spectral discretisation (Optical_props): nband contiguous bands     *)
(* that cover the spectral points 1..ngpt in order.                        *)

\* the band limits whose bands have the widths w[1], w[2], ...
RECURSIVE LimsOfWidths(_, _)
LimsOfWidths(w, first) ==
    IF w = <<>> THEN <<>>
    ELSE <<<<first, first + Head(w) - 1>>>> \o LimsOfWidths(Tail(w), first + Head(w))

RECURSIVE SeqSum(_)
SeqSum(s) == IF s = <<>> THEN 0 ELSE Head(s) + SeqSum(Tail(s))

BandWidths == { w \in SeqsUpTo(1..MaxGpt, MaxGpt) : SeqSum(w) <= MaxGpt }

SpectralDiscs ==
    { [ngpt |-> SeqSum(w), nband |-> Len(w), band_lims_gpoint |-> LimsOfWidths(w, 1)]
      : w \in BandWidths }

get_ngpt(disc) == disc.ngpt

get_nband(disc) == disc.nband

get_band_lims_gpoint(disc) == disc.band_lims_gpoint

-----------------------------------------------------------------------------
(* rrtmgp_kernels: the Fortran kernels called by Fluxes.cpp:27-76.         *)

\* spectral_flux(icol, ilev, lo) + ... + spectral_flux(icol, ilev, hi)
RECURSIVE SumGpt(_, _, _, _, _)
SumGpt(spectral_flux, icol, ilev, lo, hi) ==
    IF lo > hi THEN 0
    ELSE spectral_flux.data[icol, ilev, lo] + SumGpt(spectral_flux, icol, ilev, lo + 1, hi)

sum_broadband(ncol, nlev, ngpt, spectral_flux) ==
    LET s == [icol \in 1..ncol, ilev \in 1..nlev |->
                 SumGpt(spectral_flux, icol, ilev, 1, ngpt)]
    IN  Array2(ncol, nlev, s)

net_broadband(ncol, nlev, broadband_flux_dn, broadband_flux_up) ==
    LET d == [icol \in 1..ncol, ilev \in 1..nlev |->
                 broadband_flux_dn.data[icol, ilev] - broadband_flux_up.data[icol, ilev]]
    IN  Array2(ncol, nlev, d)

sum_byband(ncol, nlev, ngpt, nbnd, band_lims, spectral_flux) ==
    LET s == [icol \in 1..ncol, ilev \in 1..nlev, ibnd \in 1..nbnd |->
                 SumGpt(spectral_flux, icol, ilev, band_lims[ibnd][1], band_lims[ibnd][2])]
    IN  Array3(ncol, nlev, nbnd, s)

net_byband(ncol, nlev, nband, byband_flux_dn, byband_flux_up) ==
    LET d == [icol \in 1..ncol, ilev \in 1..nlev, ibnd \in 1..nband |->
                 byband_flux_dn.data[icol, ilev, ibnd] - byband_flux_up.data[icol, ilev, ibnd]]
    IN  Array3(ncol, nlev, nband, d)

-----------------------------------------------------------------------------
(* Fluxes_broadband and Fluxes_byband: src/src/Fluxes.cpp:79-190.          *)
(* An object is the record of its fields; a method maps the object before  *)
(* the call to the object after it.                                        *)

\* Fluxes_broadband(ncol, nlev)
Fluxes_broadband(ncol, nlev) ==
    [flux_up     |-> ZeroArray2(ncol, nlev),
     flux_dn     |-> ZeroArray2(ncol, nlev),
     flux_dn_dir |-> ZeroArray2(ncol, nlev),
     flux_net    |-> ZeroArray2(ncol, nlev)]

\* Fluxes_byband(ncol, nlev, nbnd)
Fluxes_byband(ncol, nlev, nbnd) ==
    [flux_up         |-> ZeroArray2(ncol, nlev),
     flux_dn         |-> ZeroArray2(ncol, nlev),
     flux_dn_dir     |-> ZeroArray2(ncol, nlev),
     flux_net        |-> ZeroArray2(ncol, nlev),
     bnd_flux_up     |-> ZeroArray3(ncol, nlev, nbnd),
     bnd_flux_dn     |-> ZeroArray3(ncol, nlev, nbnd),
     bnd_flux_dn_dir |-> ZeroArray3(ncol, nlev, nbnd),
     bnd_flux_net    |-> ZeroArray3(ncol, nlev, nbnd)]

\* mutant: the sums are added to what the fields hold
Fluxes_broadband_reduce_Accumulates(self, up, dn, disc) ==
    LET ncol == up.dim[1]
        nlev == up.dim[2]
        ngpt == up.dim[3]
        sum_up == sum_broadband(ncol, nlev, ngpt, up)
        sum_dn == sum_broadband(ncol, nlev, ngpt, dn)
        s1 == [self EXCEPT !.flux_up.data =
                  [idx \in DOMAIN self.flux_up.data |->
                      self.flux_up.data[idx] + sum_up.data[idx]]]
        s2 == [s1 EXCEPT !.flux_dn.data =
                  [idx \in DOMAIN self.flux_dn.data |->
                      self.flux_dn.data[idx] + sum_dn.data[idx]]]
    IN  [s2 EXCEPT !.flux_net = net_broadband(ncol, nlev, s2.flux_dn, s2.flux_up)]

\* mutant: the net kernel is handed up and down in the wrong order
Fluxes_broadband_reduce_NetSwapped(self, up, dn, disc) ==
    LET ncol == up.dim[1]
        nlev == up.dim[2]
        ngpt == up.dim[3]
        s1 == [self EXCEPT !.flux_up = sum_broadband(ncol, nlev, ngpt, up)]
        s2 == [s1 EXCEPT !.flux_dn = sum_broadband(ncol, nlev, ngpt, dn)]
    IN  [s2 EXCEPT !.flux_net = net_broadband(ncol, nlev, s2.flux_up, s2.flux_dn)]

\* mutant: the reduce without the direct field zeroes flux_dn_dir
Fluxes_broadband_reduce_ClearsDir(self, up, dn, disc) ==
    LET ncol == up.dim[1]
        nlev == up.dim[2]
        ngpt == up.dim[3]
        s0 == [self EXCEPT !.flux_dn_dir = ZeroArray2(ncol, nlev)]
        s1 == [s0 EXCEPT !.flux_up = sum_broadband(ncol, nlev, ngpt, up)]
        s2 == [s1 EXCEPT !.flux_dn = sum_broadband(ncol, nlev, ngpt, dn)]
    IN  [s2 EXCEPT !.flux_net = net_broadband(ncol, nlev, s2.flux_dn, s2.flux_up)]

\* Fluxes_broadband::reduce(gpt_flux_up, gpt_flux_dn, spectral_disc, top_at_1)
Fluxes_broadband_reduce(self, up, dn, disc) ==
    LET ncol == up.dim[1]
        nlev == up.dim[2]
        ngpt == up.dim[3]
        s1 == [self EXCEPT !.flux_up = sum_broadband(ncol, nlev, ngpt, up)]
        s2 == [s1 EXCEPT !.flux_dn = sum_broadband(ncol, nlev, ngpt, dn)]
    IN  [s2 EXCEPT !.flux_net = net_broadband(ncol, nlev, s2.flux_dn, s2.flux_up)]

\* mutant: the by-band reduce leaves the broadband fields alone
Fluxes_byband_reduce_NoBroadband(self, up, dn, disc) ==
    LET ncol == up.dim[1]
        nlev == up.dim[2]
        ngpt == get_ngpt(disc)
        nbnd == get_nband(disc)
        band_lims == get_band_lims_gpoint(disc)
        s1 == [self EXCEPT !.bnd_flux_up = sum_byband(ncol, nlev, ngpt, nbnd, band_lims, up)]
        s2 == [s1 EXCEPT !.bnd_flux_dn = sum_byband(ncol, nlev, ngpt, nbnd, band_lims, dn)]
    IN  [s2 EXCEPT !.bnd_flux_net =
             net_byband(ncol, nlev, nbnd, s2.bnd_flux_dn, s2.bnd_flux_up)]

\* Fluxes_byband::reduce(gpt_flux_up, gpt_flux_dn, spectral_disc, top_at_1)
Fluxes_byband_reduce(self, up, dn, disc) ==
    LET ncol == up.dim[1]
        nlev == up.dim[2]
        ngpt == get_ngpt(disc)
        nbnd == get_nband(disc)
        band_lims == get_band_lims_gpoint(disc)
        s0 == Fluxes_broadband_reduce(self, up, dn, disc)
        s1 == [s0 EXCEPT !.bnd_flux_up = sum_byband(ncol, nlev, ngpt, nbnd, band_lims, up)]
        s2 == [s1 EXCEPT !.bnd_flux_dn = sum_byband(ncol, nlev, ngpt, nbnd, band_lims, dn)]
    IN  [s2 EXCEPT !.bnd_flux_net =
             net_byband(ncol, nlev, nbnd, s2.bnd_flux_dn, s2.bnd_flux_up)]

\* the unqualified call reduce(gpt_flux_up, gpt_flux_dn, spectral_disc, top_at_1)
\* made on this: reduce is virtual (the driver calls the by-band reduce through
\* a Fluxes_broadband&), so the object's dynamic type picks the override
VirtualReduce(kind, self, up, dn, disc) ==
    IF kind = "byband" THEN Fluxes_byband_reduce(self, up, dn, disc)
    ELSE Fluxes_broadband_reduce(self, up, dn, disc)

\* mutant: the direct field is summed from the down field
Fluxes_broadband_reduce_dir_FromDn(kind, self, up, dn, dir, disc) ==
    LET ncol == up.dim[1]
        nlev == up.dim[2]
        ngpt == up.dim[3]
        s0 == VirtualReduce(kind, self, up, dn, disc)
    IN  [s0 EXCEPT !.flux_dn_dir = sum_broadband(ncol, nlev, ngpt, dn)]

\* Fluxes_broadband::reduce(gpt_flux_up, gpt_flux_dn, gpt_flux_dn_dir, ...)
Fluxes_broadband_reduce_dir(kind, self, up, dn, dir, disc) ==
    LET ncol == up.dim[1]
        nlev == up.dim[2]
        ngpt == up.dim[3]
        s0 == VirtualReduce(kind, self, up, dn, disc)
    IN  [s0 EXCEPT !.flux_dn_dir = sum_broadband(ncol, nlev, ngpt, dir)]

\* mutant: the by-band direct field is summed with one band too few
Fluxes_byband_reduce_dir_BandShort(self, up, dn, dir, disc) ==
    LET ncol == up.dim[1]
        nlev == up.dim[2]
        ngpt == get_ngpt(disc)
        nbnd == get_nband(disc)
        band_lims == get_band_lims_gpoint(disc)
        s0 == Fluxes_broadband_reduce_dir("byband", self, up, dn, dir, disc)
        s1 == Fluxes_byband_reduce(s0, up, dn, disc)
        short == sum_byband(ncol, nlev, ngpt, nbnd - 1, band_lims, dir)
    IN  [s1 EXCEPT !.bnd_flux_dn_dir.data =
             [idx \in DOMAIN s1.bnd_flux_dn_dir.data |->
                 IF idx \in DOMAIN short.data THEN short.data[idx]
                 ELSE s1.bnd_flux_dn_dir.data[idx]]]

\* mutant: the second reduce call is handed the direct field as the down field
Fluxes_byband_reduce_dir_DirAsDown(self, up, dn, dir, disc) ==
    LET ncol == up.dim[1]
        nlev == up.dim[2]
        ngpt == get_ngpt(disc)
        nbnd == get_nband(disc)
        band_lims == get_band_lims_gpoint(disc)
        s0 == Fluxes_broadband_reduce_dir("byband", self, up, dn, dir, disc)
        s1 == Fluxes_byband_reduce(s0, up, dir, disc)
    IN  [s1 EXCEPT !.bnd_flux_dn_dir =
             sum_byband(ncol, nlev, ngpt, nbnd, band_lims, dir)]

\* Fluxes_byband::reduce(gpt_flux_up, gpt_flux_dn, gpt_flux_dn_dir, ...)
Fluxes_byband_reduce_dir(self, up, dn, dir, disc) ==
    LET ncol == up.dim[1]
        nlev == up.dim[2]
        ngpt == get_ngpt(disc)
        nbnd == get_nband(disc)
        band_lims == get_band_lims_gpoint(disc)
        s0 == Fluxes_broadband_reduce_dir("byband", self, up, dn, dir, disc)
        s1 == Fluxes_byband_reduce(s0, up, dn, disc)
    IN  [s1 EXCEPT !.bnd_flux_dn_dir =
             sum_byband(ncol, nlev, ngpt, nbnd, band_lims, dir)]

-----------------------------------------------------------------------------
(* The caller of reduce (src/src_test/test_rte_rrtmgp.cpp:420-435,         *)
(* 463-466): the object is built for the extents of the spectral fields    *)
(* and of spectral_disc, and the fields are what the solver left.          *)

\* a spectral field: every (column, level) and every spectral point differ
GptField(seed, ncol, nlev, ngpt) ==
    LET v == [icol \in 1..ncol, ilev \in 1..nlev, igpt \in 1..ngpt |->
                 seed * igpt * igpt + (icol - 1) + ncol * (ilev - 1)]
    IN  Array3(ncol, nlev, ngpt, v)

Seeds == 0..MaxSeed

FxInit ==
    /\ fx_kind \in {"broadband", "byband"}
    /\ spectral_disc \in SpectralDiscs
    /\ \E ncol \in {1, MaxCol}, nlev \in {1, MaxLev} :
          /\ ncol = 1 <=> nlev = 1
          /\ fluxes = IF fx_kind = "byband"
                      THEN Fluxes_byband(ncol, nlev, get_nband(spectral_disc))
                      ELSE Fluxes_broadband(ncol, nlev)
          /\ gpt_flux_up = ZeroArray3(ncol, nlev, get_ngpt(spectral_disc))
          /\ gpt_flux_dn = ZeroArray3(ncol, nlev, get_ngpt(spectral_disc))
          /\ gpt_flux_dn_dir = ZeroArray3(ncol, nlev, get_ngpt(spectral_disc))
    /\ fx_last = "none"

\* the solver fills a spectral field of the extents of the one it replaces
Solved(old, seed) == GptField(seed, old.dim[1], old.dim[2], old.dim[3])

\* fluxes.reduce(gpt_flux_up, gpt_flux_dn, spectral_disc, top_at_1) on a
\* Fluxes_broadband
BroadbandReduce ==
    /\ fx_kind = "broadband"
    /\ \E su \in Seeds, sd \in Seeds :
          /\ gpt_flux_up' = Solved(gpt_flux_up, su)
          /\ gpt_flux_dn' = Solved(gpt_flux_dn, sd)
          /\ fluxes' = Fluxes_broadband_reduce(fluxes, gpt_flux_up', gpt_flux_dn',
                                               spectral_disc)
    /\ fx_last' = "reduce"
    /\ UNCHANGED <<fx_kind, spectral_disc, gpt_flux_dn_dir>>

\* the same with the direct-beam field
BroadbandReduceDir ==
    /\ fx_kind = "broadband"
    /\ \E su \in Seeds, sd \in Seeds, sr \in Seeds :
          /\ gpt_flux_up' = Solved(gpt_flux_up, su)
          /\ gpt_flux_dn' = Solved(gpt_flux_dn, sd)
          /\ gpt_flux_dn_dir' = Solved(gpt_flux_dn_dir, sr)
          /\ fluxes' = Fluxes_broadband_reduce_dir("broadband", fluxes, gpt_flux_up',
                           gpt_flux_dn', gpt_flux_dn_dir', spectral_disc)
    /\ fx_last' = "reduce_dir"
    /\ UNCHANGED <<fx_kind, spectral_disc>>

\* bnd_fluxes.reduce(gpt_flux_up, gpt_flux_dn, spectral_disc, top_at_1) on a
\* Fluxes_byband
BybandReduce ==
    /\ fx_kind = "byband"
    /\ \E su \in Seeds, sd \in Seeds :
          /\ gpt_flux_up' = Solved(gpt_flux_up, su)
          /\ gpt_flux_dn' = Solved(gpt_flux_dn, sd)
          /\ fluxes' = Fluxes_byband_reduce(fluxes, gpt_flux_up', gpt_flux_dn',
                                            spectral_disc)
    /\ fx_last' = "reduce"
    /\ UNCHANGED <<fx_kind, spectral_disc, gpt_flux_dn_dir>>

\* the same with the direct-beam field
BybandReduceDir ==
    /\ fx_kind = "byband"
    /\ \E su \in Seeds, sd \in Seeds, sr \in Seeds :
          /\ gpt_flux_up' = Solved(gpt_flux_up, su)
          /\ gpt_flux_dn' = Solved(gpt_flux_dn, sd)
          /\ gpt_flux_dn_dir' = Solved(gpt_flux_dn_dir, sr)
          /\ fluxes' = Fluxes_byband_reduce_dir(fluxes, gpt_flux_up', gpt_flux_dn',
                           gpt_flux_dn_dir', spectral_disc)
    /\ fx_last' = "reduce_dir"
    /\ UNCHANGED <<fx_kind, spectral_disc>>


-----------------------------------------------------------------------------
(* reduce on operands whose extents disagree.  The wrappers of             *)
(* src/src/Fluxes.cpp:27-76 hand the kernels the extents of gpt_flux_up    *)
(* (of spectral_disc for the by-band sums) and the bare pointers ptr() of  *)
(* the arrays, so a kernel reads and writes the memory of an array in the  *)
(* column-major layout of the extents it was told.                         *)

\* the number of elements of an array of extents dim
Size(dim) == dim[1] * dim[2] * (IF Len(dim) = 3 THEN dim[3] ELSE 1)

\* the 0-based position in memory of the element idx of an array of extents dim
Offset(dim, idx) ==
    (idx[1] - 1) + dim[1] * (idx[2] - 1)
        + (IF Len(dim) = 3 THEN dim[1] * dim[2] * (idx[3] - 1) ELSE 0)

\* the index of the element at position off of an array of extents dim
Unflat(dim, off) ==
    IF Len(dim) = 3
    THEN <<(off % dim[1]) + 1, ((off \div dim[1]) % dim[2]) + 1, (off \div (dim[1] * dim[2])) + 1>>
    ELSE <<(off % dim[1]) + 1, (off \div dim[1]) + 1>>

\* the indices of an array of extents dim
Indices(dim) ==
    IF Len(dim) = 3 THEN (1..dim[1]) \X (1..dim[2]) \X (1..dim[3])
    ELSE (1..dim[1]) \X (1..dim[2])

\* what a kernel told the extents dim reads through a.ptr(): the memory of a
\* in the layout of dim, and past the end of a whatever the memory holds
Reinterpret(a, dim, garbage_value) ==
    [dim  |-> dim,
     data |-> [idx \in Indices(dim) |->
                  IF Offset(dim, idx) < Size(a.dim)
                  THEN a.data[Unflat(a.dim, Offset(dim, idx))]
                  ELSE garbage_value]]

\* what a kernel that computed values leaves in target through target.ptr():
\* the elements of values in memory order; those past the end of target land
\* outside it
PtrWrite(target, values) ==
    [target EXCEPT !.data =
        [idx \in DOMAIN target.data |->
            IF Offset(target.dim, idx) < Size(values.dim)
            THEN values.data[Unflat(values.dim, Offset(target.dim, idx))]
            ELSE target.data[idx]]]

\* rrtmgp_kernels::sum_broadband(ncol, nlev, ngpt, spectral_flux, broadband_flux)
sum_broadband_ptr(ncol, nlev, ngpt, spectral_flux, broadband_flux, garbage_value) ==
    PtrWrite(broadband_flux,
             sum_broadband(ncol, nlev, ngpt,
                           Reinterpret(spectral_flux, <<ncol, nlev, ngpt>>, garbage_value)))

\* rrtmgp_kernels::net_broadband(ncol, nlev, flux_dn, flux_up, flux_net)
net_broadband_ptr(ncol, nlev, flux_dn, flux_up, flux_net, garbage_value) ==
    PtrWrite(flux_net,
             net_broadband(ncol, nlev,
                           Reinterpret(flux_dn, <<ncol, nlev>>, garbage_value),
                           Reinterpret(flux_up, <<ncol, nlev>>, garbage_value)))

\* rrtmgp_kernels::sum_byband(ncol, nlev, ngpt, nbnd, band_lims, spectral_flux, byband_flux)
sum_byband_ptr(ncol, nlev, ngpt, nbnd, band_lims, spectral_flux, byband_flux, garbage_value) ==
    PtrWrite(byband_flux,
             sum_byband(ncol, nlev, ngpt, nbnd, band_lims,
                        Reinterpret(spectral_flux, <<ncol, nlev, ngpt>>, garbage_value)))

\* rrtmgp_kernels::net_byband(ncol, nlev, nband, bnd_flux_dn, bnd_flux_up, bnd_flux_net)
net_byband_ptr(ncol, nlev, nband, bnd_flux_dn, bnd_flux_up, bnd_flux_net, garbage_value) ==
    PtrWrite(bnd_flux_net,
             net_byband(ncol, nlev, nband,
                        Reinterpret(bnd_flux_dn, <<ncol, nlev, nband>>, garbage_value),
                        Reinterpret(bnd_flux_up, <<ncol, nlev, nband>>, garbage_value)))

\* Fluxes_broadband::reduce(gpt_flux_up, gpt_flux_dn, spectral_disc, top_at_1)
\* on any operands: no extent is compared with another
Fluxes_broadband_reduce_ptr(self, up, dn, disc, garbage_value) ==
    LET ncol == up.dim[1]
        nlev == up.dim[2]
        ngpt == up.dim[3]
        s1 == [self EXCEPT !.flux_up =
                  sum_broadband_ptr(ncol, nlev, ngpt, up, self.flux_up, garbage_value)]
        s2 == [s1 EXCEPT !.flux_dn =
                  sum_broadband_ptr(ncol, nlev, ngpt, dn, s1.flux_dn, garbage_value)]
    IN  [s2 EXCEPT !.flux_net =
            net_broadband_ptr(ncol, nlev, s2.flux_dn, s2.flux_up, s2.flux_net, garbage_value)]

\* Fluxes_byband::reduce(gpt_flux_up, gpt_flux_dn, spectral_disc, top_at_1)
\* on any operands
Fluxes_byband_reduce_ptr(self, up, dn, disc, garbage_value) ==
    LET ncol == up.dim[1]
        nlev == up.dim[2]
        ngpt == get_ngpt(disc)
        nbnd == get_nband(disc)
        band_lims == get_band_lims_gpoint(disc)
        s0 == Fluxes_broadband_reduce_ptr(self, up, dn, disc, garbage_value)
        s1 == [s0 EXCEPT !.bnd_flux_up =
                  sum_byband_ptr(ncol, nlev, ngpt, nbnd, band_lims, up, s0.bnd_flux_up,
                                 garbage_value)]
        s2 == [s1 EXCEPT !.bnd_flux_dn =
                  sum_byband_ptr(ncol, nlev, ngpt, nbnd, band_lims, dn, s1.bnd_flux_dn,
                                 garbage_value)]
    IN  [s2 EXCEPT !.bnd_flux_net =
            net_byband_ptr(ncol, nlev, nbnd, s2.bnd_flux_dn, s2.bnd_flux_up,
                           s2.bnd_flux_net, garbage_value)]

\* some kernel of the reduce reads or writes past the end of an array
ReduceOverruns(kind, self, up, dn, disc) ==
    LET ncol == up.dim[1]
        nlev == up.dim[2]
    IN  \/ Size(up.dim) > Size(dn.dim)
        \/ ncol * nlev > Size(self.flux_up.dim)
        \/ /\ kind = "byband"
           /\ \/ ncol * nlev * get_ngpt(disc) > Size(up.dim)
              \/ ncol * nlev * get_ngpt(disc) > Size(dn.dim)
              \/ ncol * nlev * get_nband(disc) > Size(self.bnd_flux_up.dim)

\* the extents of the operands of a reduce agree with one another, with the
\* spectral points of disc and with the extents of the object
ShapesAgree(self, up, dn, disc) ==
    /\ up.dim = dn.dim
    /\ up.dim[3] = get_ngpt(disc)
    /\ <<up.dim[1], up.dim[2]>> = self.flux_up.dim

\* the extents tried for an operand of an object of extents (ncol, nlev):
\* the right ones, one spectral point or one column too many, one element
OperandDims(ncol, nlev, ngpt) ==
    {<<ncol, nlev, ngpt>>, <<ncol, nlev, ngpt + 1>>, <<ncol + 1, nlev, ngpt>>, <<1, 1, 1>>}

\* the operands of a reduce whose extents disagree somewhere
MismatchedOperands(up, dn) ==
    \E du, dd \in OperandDims(fluxes.flux_up.dim[1], fluxes.flux_up.dim[2],
                              get_ngpt(spectral_disc)), seed \in Seeds :
        /\ up = GptField(seed, du[1], du[2], du[3])
        /\ dn = GptField(seed + 1, dd[1], dd[2], dd[3])
        /\ ~ShapesAgree(fluxes, up, dn, spectral_disc)

\* reduce on operands whose extents disagree: the call returns
ReduceMismatchedReturns ==
    /\ fx_last = "none"
    /\ MismatchedOperands(gpt_flux_up', gpt_flux_dn')
    /\ \E garbage_value \in GarbageValues :
          /\ ~ReduceOverruns(fx_kind, fluxes, gpt_flux_up', gpt_flux_dn', spectral_disc)
                => garbage_value = 0
          /\ fluxes' = IF fx_kind = "byband"
                       THEN Fluxes_byband_reduce_ptr(fluxes, gpt_flux_up', gpt_flux_dn',
                                                     spectral_disc, garbage_value)
                       ELSE Fluxes_broadband_reduce_ptr(fluxes, gpt_flux_up', gpt_flux_dn',
                                                        spectral_disc, garbage_value)
    /\ fx_last' = "reduce"
    /\ UNCHANGED <<fx_kind, spectral_disc, gpt_flux_dn_dir>>

\* reduce on operands whose extents disagree: an access past the end of an
\* array faults
ReduceMismatchedFaults ==
    /\ fx_last = "none"
    /\ MismatchedOperands(gpt_flux_up', gpt_flux_dn')
    /\ ReduceOverruns(fx_kind, fluxes, gpt_flux_up', gpt_flux_dn', spectral_disc)
    /\ fx_last' = "crashed"
    /\ UNCHANGED <<fx_kind, spectral_disc, fluxes, gpt_flux_dn_dir>>

-----------------------------------------------------------------------------
(* Aerosol optics: src/src/Aerosol_optics.cpp:38-197.                      *)
(* Optical depths are integers in units of half a machine epsilon, so an   *)
(* accumulated optical depth of 1 is below the floor of the divisions.     *)

\* std::numeric_limits<Float>::epsilon(), in the unit of the optical depths
Eps == 2

\* the exact quotient a / b of two Floats (b > 0 wherever the code divides)
FDiv(a, b) == [num |-> a, den |-> b]

\* rh_class(rel_hum, rh2) as a function: the 0-based index the scan stops at
\* while its reads stay inside rh2, and Len(rh2) once it has left rh2
RECURSIVE RhScan(_, _, _)
RhScan(i, hum, v) ==
    IF ~InRange(i, v) THEN Len(v)
    ELSE IF LoopCond(v[i + 1], hum) THEN RhScan(i + 1, hum, v)
    ELSE i

\* the scan for hum reads rh2 past its end (undefined behaviour)
Overruns(hum, v) == RhScan(0, hum, v) = Len(v)

\* int ihum = rh_class(rh({icol, ilay}), rh_classes) + 1;
\* after an overrun rh_class returns garbage.over elements past the end
HumBinNoPlusOne(hum, rh_classes, garbage) ==
    IF Overruns(hum, rh_classes) THEN Len(rh_classes) + garbage.over - 1
    ELSE RhScan(0, hum, rh_classes)

HumBin(hum, rh_classes, garbage) ==
    IF Overruns(hum, rh_classes) THEN Len(rh_classes) + garbage.over
    ELSE RhScan(0, hum, rh_classes) + 1

list_aerosol_types ==
    <<"SS1", "SS2", "SS3", "DU1", "DU2", "DU3", "OM1", "OM2", "BC1", "BC2", "SU">>

\* the if-chain with the table columns of DU2 and DU3 exchanged
SpeciesBranchDustExchanged(aerosol_class) ==
    CASE aerosol_class = "DU1" -> [philic |-> FALSE, col |-> 1,  aermr |-> 4]
      [] aerosol_class = "DU2" -> [philic |-> FALSE, col |-> 6,  aermr |-> 5]
      [] aerosol_class = "DU3" -> [philic |-> FALSE, col |-> 8,  aermr |-> 6]
      [] aerosol_class = "BC1" -> [philic |-> FALSE, col |-> 11, aermr |-> 9]
      [] aerosol_class = "BC2" -> [philic |-> FALSE, col |-> 11, aermr |-> 10]
      [] aerosol_class = "SS1" -> [philic |-> TRUE,  col |-> 1,  aermr |-> 1]
      [] aerosol_class = "SS2" -> [philic |-> TRUE,  col |-> 2,  aermr |-> 2]
      [] aerosol_class = "SS3" -> [philic |-> TRUE,  col |-> 3,  aermr |-> 3]
      [] aerosol_class = "SU"  -> [philic |-> TRUE,  col |-> 5,  aermr |-> 11]
      [] aerosol_class = "OM1" -> [philic |-> FALSE, col |-> 10, aermr |-> 8]
      [] aerosol_class = "OM2" -> [philic |-> TRUE,  col |-> 4,  aermr |-> 7]

\* the if-chain over aerosol_class: which table, which table column and
\* which mixing-ratio field aermrNN the branch reads
SpeciesBranch(aerosol_class) ==
    CASE aerosol_class = "DU1" -> [philic |-> FALSE, col |-> 1,  aermr |-> 4]
      [] aerosol_class = "DU2" -> [philic |-> FALSE, col |-> 8,  aermr |-> 5]
      [] aerosol_class = "DU3" -> [philic |-> FALSE, col |-> 6,  aermr |-> 6]
      [] aerosol_class = "BC1" -> [philic |-> FALSE, col |-> 11, aermr |-> 9]
      [] aerosol_class = "BC2" -> [philic |-> FALSE, col |-> 11, aermr |-> 10]
      [] aerosol_class = "SS1" -> [philic |-> TRUE,  col |-> 1,  aermr |-> 1]
      [] aerosol_class = "SS2" -> [philic |-> TRUE,  col |-> 2,  aermr |-> 2]
      [] aerosol_class = "SS3" -> [philic |-> TRUE,  col |-> 3,  aermr |-> 3]
      [] aerosol_class = "SU"  -> [philic |-> TRUE,  col |-> 5,  aermr |-> 11]
      [] aerosol_class = "OM1" -> [philic |-> FALSE, col |-> 10, aermr |-> 8]
      [] aerosol_class = "OM2" -> [philic |-> TRUE,  col |-> 4,  aermr |-> 7]

\* a read table({ibnd, ihum, col}) of a hydrophilic table: outside the
\* humidity bins it yields what the memory holds
PhilicRead(table, ibnd, ihum_, col, garbage_value) ==
    IF ihum_ \in 1..table.dim[2] THEN table.data[ibnd, ihum_, col] ELSE garbage_value

\* lines 66-147 for one aerosol_class: the three terms it adds
SpeciesTerms(this, in, icol, ilay, ibnd, ihum_, garbage, aerosol_class) ==
    LET br == SpeciesBranch(aerosol_class)
        mext == IF br.philic
                THEN PhilicRead(this.mext_philic, ibnd, ihum_, br.col, garbage.mext)
                ELSE this.mext_phobic.data[ibnd, br.col]
        ssa  == IF br.philic
                THEN PhilicRead(this.ssa_philic, ibnd, ihum_, br.col, garbage.ssa)
                ELSE this.ssa_phobic.data[ibnd, br.col]
        g    == IF br.philic
                THEN PhilicRead(this.g_philic, ibnd, ihum_, br.col, garbage.g)
                ELSE this.g_phobic.data[ibnd, br.col]
        mmr  == in.aermr[br.aermr].data[icol, ilay]
        local_od == mmr * in.dpg.data[icol, ilay] * mext
    IN  [tau |-> local_od, taussa |-> local_od * ssa, taussag |-> local_od * ssa * g]

\* the loop for (auto &&aerosol_class : list_aerosol_types) from its i-th
\* element on, starting from the sums acc
RECURSIVE SpeciesLoop(_, _, _, _, _, _, _, _, _)
SpeciesLoop(this, in, icol, ilay, ibnd, ihum_, garbage, i, acc) ==
    IF i > Len(list_aerosol_types) THEN acc
    ELSE LET t == SpeciesTerms(this, in, icol, ilay, ibnd, ihum_, garbage,
                               list_aerosol_types[i])
         IN  SpeciesLoop(this, in, icol, ilay, ibnd, ihum_, garbage, i + 1,
                 [tau     |-> acc.tau + t.tau,
                  taussa  |-> acc.taussa + t.taussa,
                  taussag |-> acc.taussag + t.taussag])

\* the body of the three nested loops for one (ibnd, ilay, icol)
CellSums(this, in, icol, ilay, ibnd, garbage) ==
    SpeciesLoop(this, in, icol, ilay, ibnd,
                HumBin(in.rh.data[icol, ilay], this.rh_upper, garbage), garbage, 1,
                [tau |-> 0, taussa |-> 0, taussag |-> 0])

\* compute_all_from_table(ncol, nlay, nbnd, aermr01, ..., tau, taussa, taussag)
compute_all_from_table(ncol, nlay, nbnd, this, in, garbage) ==
    LET cell == [icol \in 1..ncol, ilay \in 1..nlay, ibnd \in 1..nbnd |->
                    CellSums(this, in, icol, ilay, ibnd, garbage)]
    IN  [ltau     |-> [dim  |-> <<ncol, nlay, nbnd>>,
                       data |-> [idx \in DOMAIN cell |-> cell[idx].tau]],
         ltaussa  |-> [dim  |-> <<ncol, nlay, nbnd>>,
                       data |-> [idx \in DOMAIN cell |-> cell[idx].taussa]],
         ltaussag |-> [dim  |-> <<ncol, nlay, nbnd>>,
                       data |-> [idx \in DOMAIN cell |-> cell[idx].taussag]]]

\* mutant: the two divisions are not floored
StoreOptics_NoFloor(ncol, nlay, nbnd, tmp, props) ==
    LET written(idx) == idx[1] \in 1..ncol /\ idx[2] \in 1..nlay /\ idx[3] \in 1..nbnd
    IN  [tau |-> [props.tau EXCEPT !.data =
                     [idx \in DOMAIN props.tau.data |->
                         IF written(idx) THEN tmp.ltau.data[idx]
                         ELSE props.tau.data[idx]]],
         ssa |-> [props.ssa EXCEPT !.data =
                     [idx \in DOMAIN props.ssa.data |->
                         IF written(idx)
                         THEN FDiv(tmp.ltaussa.data[idx], tmp.ltau.data[idx])
                         ELSE props.ssa.data[idx]]],
         g   |-> [props.g EXCEPT !.data =
                     [idx \in DOMAIN props.g.data |->
                         IF written(idx)
                         THEN FDiv(tmp.ltaussag.data[idx], tmp.ltaussa.data[idx])
                         ELSE props.g.data[idx]]]]

\* the loop of aerosol_optics over (ibnd, ilay, icol): the three stores
StoreOptics(ncol, nlay, nbnd, tmp, props) ==
    LET written(idx) == idx[1] \in 1..ncol /\ idx[2] \in 1..nlay /\ idx[3] \in 1..nbnd
    IN  [tau |-> [props.tau EXCEPT !.data =
                     [idx \in DOMAIN props.tau.data |->
                         IF written(idx) THEN tmp.ltau.data[idx]
                         ELSE props.tau.data[idx]]],
         ssa |-> [props.ssa EXCEPT !.data =
                     [idx \in DOMAIN props.ssa.data |->
                         IF written(idx)
                         THEN FDiv(tmp.ltaussa.data[idx], Max(tmp.ltau.data[idx], Eps))
                         ELSE props.ssa.data[idx]]],
         g   |-> [props.g EXCEPT !.data =
                     [idx \in DOMAIN props.g.data |->
                         IF written(idx)
                         THEN FDiv(tmp.ltaussag.data[idx], Max(tmp.ltaussa.data[idx], Eps))
                         ELSE props.g.data[idx]]]]

\* some rh({icol, ilay}) makes rh_class read rh_upper past its end
AnyOverrun(this, in) ==
    \E icol \in 1..in.rh.dim[1], ilay \in 1..in.rh.dim[2] :
        Overruns(in.rh.data[icol, ilay], this.rh_upper)

\* the values of ihum at line 64, per (icol, ilay)
IhumField(this, in, garbage) ==
    LET b == [icol \in 1..in.rh.dim[1], ilay \in 1..in.rh.dim[2] |->
                 HumBin(in.rh.data[icol, ilay], this.rh_upper, garbage)]
    IN  Array2(in.rh.dim[1], in.rh.dim[2], b)

\* ---- the table and the arguments enumerated

MaxLay == MaxLev

\* the (ncol, nlay) of a call: one cell, a row of columns, a column of layers
AerDims == {<<1, 1>>, <<MaxCol, 1>>, <<1, MaxLay>>}

\* the target starts zeroed or holding the values of an earlier use
PriorSeeds == {0, 1}

\* the dry-air path of the first cell: none, or some
DryPaths == {0, 1}

\* strictly ascending upper bounds of MaxBins humidity bins
AerRhTables == { s \in [1..MaxBins -> 0..MaxRh] : \A i \in 1..(MaxBins - 1) : s[i] < s[i + 1] }

\* Aerosol_optics(band_lims_wvn, rh_upper, mext_phobic, ..., g_philic): a
\* table whose entries differ from column to column and from bin to bin
AerosolTable(rh_upper, nbnd) ==
    LET nhum == Len(rh_upper)
        nphobic == Len(list_aerosol_types)
        Phobic == (1..nbnd) \X (1..nphobic)
        Philic == (1..nbnd) \X (1..nhum) \X (1..5)
        mext_phobic == [e \in Phobic |-> e[2] + e[1] - 1]
        ssa_phobic == [e \in Phobic |-> (e[2] + e[1]) % 2]
        g_phobic == [e \in Phobic |-> ((e[2] + e[1]) % 3) - 1]
        mext_philic == [e \in Philic |-> 20 + 5 * (e[2] - 1) + e[3] + e[1]]
        ssa_philic == [e \in Philic |-> (e[2] + e[3] + e[1]) % 2]
        g_philic == [e \in Philic |-> ((e[2] + e[3] + e[1]) % 3) - 1]
    IN  [rh_upper    |-> rh_upper,
         nband       |-> nbnd,
         mext_phobic |-> Array2(nbnd, nphobic, mext_phobic),
         ssa_phobic  |-> Array2(nbnd, nphobic, ssa_phobic),
         g_phobic    |-> Array2(nbnd, nphobic, g_phobic),
         mext_philic |-> Array3(nbnd, nhum, 5, mext_philic),
         ssa_philic  |-> Array3(nbnd, nhum, 5, ssa_philic),
         g_philic    |-> Array3(nbnd, nhum, 5, g_philic)]

\* the mixing ratios of the 11 fields in the first cell: none, one species
\* alone, every species with its own amount, or a negative amount of one
MmrProfiles ==
    LET n == Len(list_aerosol_types)
    IN  {[k \in 1..n |-> 0], [k \in 1..n |-> k], [k \in 1..n |-> IF k = n THEN 0 - 1 ELSE 0]}
        \cup { [k \in 1..n |-> IF k = j THEN 1 ELSE 0] : j \in 1..n }

\* the arguments of aerosol_optics: cell (1, 1) holds the profile, the
\* humidity r1 and the dry-air path d; the other cells hold multiples of the
\* profile, the humidity r2 and longer paths
AerosolArgs(profile, r1, r2, d, ncol, nlay) ==
    LET first(icol, ilay) == icol = 1 /\ ilay = 1
        weight(icol, ilay) == 1 + (icol - 1) + ncol * (ilay - 1)
        Cells == (1..ncol) \X (1..nlay)
        rh == [c \in Cells |-> IF first(c[1], c[2]) THEN r1 ELSE r2]
        dpg == [c \in Cells |-> d + weight(c[1], c[2]) - 1]
    IN  [aermr |-> [k \in 1..Len(list_aerosol_types) |->
                       LET m == [c \in Cells |-> profile[k] * weight(c[1], c[2])]
                       IN  Array2(ncol, nlay, m)],
         rh    |-> Array2(ncol, nlay, rh),
         dpg   |-> Array2(ncol, nlay, dpg)]

\* what the target holds before the call
PriorProps(seed, ncol, nlay, nbnd) ==
    LET Triples == (1..ncol) \X (1..nlay) \X (1..nbnd)
        tau == [t \in Triples |-> seed * (t[1] + t[2] + t[3])]
        ssa == [t \in Triples |-> FDiv(seed, 1)]
        g == [t \in Triples |-> FDiv(0 - seed, 1)]
    IN  [tau |-> Array3(ncol, nlay, nbnd, tau),
         ssa |-> Array3(ncol, nlay, nbnd, ssa),
         g   |-> Array3(ncol, nlay, nbnd, g)]

\* what an out-of-range read of the scan or of a hydrophilic table yields
AerGarbage ==
    {[over |-> 1, mext |-> 0, ssa |-> 0, g |-> 0],
     [over |-> 1, mext |-> 0 - 1, ssa |-> 2, g |-> 0 - 2],
     [over |-> MaxOverrun, mext |-> 999, ssa |-> 1, g |-> 1]}

NoArgs == [aermr |-> <<>>, rh |-> ZeroArray2(1, 1), dpg |-> ZeroArray2(1, 1)]

NoTmp == [ltau |-> ZeroArray3(1, 1, 1), ltaussa |-> ZeroArray3(1, 1, 1),
          ltaussag |-> ZeroArray3(1, 1, 1)]

AerInit ==
    /\ \E rh_upper \in AerRhTables : aerosol = AerosolTable(rh_upper, MaxBnd)
    /\ \E dims \in AerDims, seed \in PriorSeeds :
          optical_props = PriorProps(seed, dims[1], dims[2], MaxBnd)
    /\ aer_in = NoArgs
    /\ aer_tmp = NoTmp
    /\ aer_ihum = ZeroArray2(1, 1)
    /\ pc_aer = "idle"

\* the arguments of a call on the target optical_props
CallArgs(in) ==
    \E profile \in MmrProfiles, r1 \in 0..(MaxRh + 1), r2 \in {0, MaxRh + 1}, d \in DryPaths :
        in = AerosolArgs(profile, r1, r2, d,
                         optical_props.tau.dim[1], optical_props.tau.dim[2])

\* Aerosol_optics::aerosol_optics(aermr01, ..., rh, dpg, optical_props) when
\* every read stays in range, and when a read past the end of rh_upper
\* yields garbage and the call goes on
AerosolOptics ==
    /\ pc_aer = "idle"
    /\ CallArgs(aer_in')
    /\ LET ncol == aer_in'.rh.dim[1]
           nlay == aer_in'.rh.dim[2]
           nbnd == aerosol.nband
       IN  \E garbage \in AerGarbage :
              /\ ~AnyOverrun(aerosol, aer_in') => garbage.over = 1
              /\ aer_tmp' = compute_all_from_table(ncol, nlay, nbnd, aerosol, aer_in',
                                                   garbage)
              /\ aer_ihum' = IhumField(aerosol, aer_in', garbage)
              /\ optical_props' = StoreOptics(ncol, nlay, nbnd, aer_tmp', optical_props)
    /\ pc_aer' = "done"
    /\ UNCHANGED aerosol

\* the same call when a read past the end of rh_upper faults: the process
\* ends inside compute_all_from_table, before anything is stored
AerosolOpticsFaults ==
    /\ pc_aer = "idle"
    /\ CallArgs(aer_in')
    /\ AnyOverrun(aerosol, aer_in')
    /\ pc_aer' = "crashed"
    /\ UNCHANGED <<aerosol, optical_props, aer_tmp, aer_ihum>>


-----------------------------------------------------------------------------
(* solve_radiation: the column blocks of the longwave solve                *)
(* (src/src_test/test_rte_rrtmgp.cpp:375-495).                             *)

\* constexpr int n_col_block = 4;
n_col_block == 4

\* the block sizes compared
BlockSizes == (1..MaxBlock) \cup {n_col_block}

\* the levels, spectral points and bands of the solve
DrvLev == MaxLev

DrvDisc ==
    [ngpt |-> MaxGpt, nband |-> 2, band_lims_gpoint |-> <<<<1, 1>>, <<2, MaxGpt>>>>]

\* x.subset({{ {col_s, col_e}, ... }}): the columns col_s..col_e, renumbered
\* from 1
Subset(x, col_s, col_e) == [icol \in 1..(col_e - col_s + 1) |-> x[col_s + icol - 1]]

\* gas_optics followed by rte_lw: the spectral fluxes of a block of columns,
\* every column from its own input alone
rte_lw_up(block_in, n_lev, n_gpt) ==
    Array3(Len(block_in), n_lev, n_gpt,
           [icol \in 1..Len(block_in), ilev \in 1..n_lev, igpt \in 1..n_gpt |->
               block_in[icol] * igpt + ilev])

rte_lw_dn(block_in, n_lev, n_gpt) ==
    Array3(Len(block_in), n_lev, n_gpt,
           [icol \in 1..Len(block_in), ilev \in 1..n_lev, igpt \in 1..n_gpt |->
               2 * block_in[icol] + igpt * ilev])

\* mutant: the output column is the column of the block
OutColNoShift(icol, col_s_in) == icol

\* the output column icol+col_s_in-1 of the copy loops
OutCol(icol, col_s_in) == icol + col_s_in - 1

\* the copy loop of one output array: lines 438-453
CopyOut(out, field, n_col_in, col_s_in) ==
    [out EXCEPT !.data =
        [idx \in DOMAIN out.data |->
            IF \E icol \in 1..n_col_in : OutCol(icol, col_s_in) = idx[1]
            THEN LET icol == CHOOSE i \in 1..n_col_in : OutCol(i, col_s_in) = idx[1]
                 IN  field.data[<<icol>> \o Tail(idx)]
            ELSE out.data[idx]]]

\* the output columns the copy loops of one invocation write, counted
CountWrites(writes, n_col_in, col_s_in) ==
    [col \in DOMAIN writes |->
        writes[col] + Cardinality({icol \in 1..n_col_in : OutCol(icol, col_s_in) = col})]

\* call_kernels(col_s_in, col_e_in, ..., fluxes, bnd_fluxes): the output
\* arrays after the invocation
call_kernels(col_s_in, col_e_in, input, out, fluxes_in, bnd_fluxes_in) ==
    LET n_col_in == col_e_in - col_s_in + 1
        block_in == Subset(input, col_s_in, col_e_in)
        up == rte_lw_up(block_in, DrvLev, get_ngpt(DrvDisc))
        dn == rte_lw_dn(block_in, DrvLev, get_ngpt(DrvDisc))
        fl == VirtualReduce("broadband", fluxes_in, up, dn, DrvDisc)
        bnd == VirtualReduce("byband", bnd_fluxes_in, up, dn, DrvDisc)
    IN  [lw_flux_up      |-> CopyOut(out.lw_flux_up, fl.flux_up, n_col_in, col_s_in),
         lw_flux_dn      |-> CopyOut(out.lw_flux_dn, fl.flux_dn, n_col_in, col_s_in),
         lw_flux_net     |-> CopyOut(out.lw_flux_net, fl.flux_net, n_col_in, col_s_in),
         lw_bnd_flux_up  |-> CopyOut(out.lw_bnd_flux_up, bnd.bnd_flux_up, n_col_in, col_s_in),
         lw_bnd_flux_dn  |-> CopyOut(out.lw_bnd_flux_dn, bnd.bnd_flux_dn, n_col_in, col_s_in),
         lw_bnd_flux_net |-> CopyOut(out.lw_bnd_flux_net, bnd.bnd_flux_net, n_col_in, col_s_in)]

\* the output arrays as created at lines 363-369
LwOutInit(ncol) ==
    [lw_flux_up      |-> ZeroArray2(ncol, DrvLev),
     lw_flux_dn      |-> ZeroArray2(ncol, DrvLev),
     lw_flux_net     |-> ZeroArray2(ncol, DrvLev),
     lw_bnd_flux_up  |-> ZeroArray3(ncol, DrvLev, get_nband(DrvDisc)),
     lw_bnd_flux_dn  |-> ZeroArray3(ncol, DrvLev, get_nband(DrvDisc)),
     lw_bnd_flux_net |-> ZeroArray3(ncol, DrvLev, get_nband(DrvDisc))]

\* int n_blocks = n_col / n_col_block;
n_blocks == n_col \div col_block

\* int n_col_block_left = n_col % n_col_block;
n_col_block_left == n_col % col_block

\* the inputs of the columns: every column differs from the others
DrvInputs(ncol) == { [col \in 1..ncol |-> (seed + 1) * col] : seed \in Seeds }

DrvInit ==
    /\ n_col \in 0..MaxNCol
    /\ col_block \in BlockSizes
    /\ drv_in \in DrvInputs(n_col)
    /\ drv_b = 1
    /\ lw_out = LwOutInit(n_col)
    /\ drv_writes = [col \in 1..n_col |-> 0]
    /\ drv_calls = <<>>
    /\ pc_drv = "blocks"

\* one pass of for (int b=1; b<=n_blocks; ++b): lines 456-475
DrvFullBlock ==
    /\ pc_drv = "blocks"
    /\ drv_b <= n_blocks
    /\ LET col_s == (drv_b - 1) * col_block + 1
           col_e == drv_b * col_block
       IN  /\ lw_out' = call_kernels(col_s, col_e, drv_in, lw_out,
                                     Fluxes_broadband(col_block, DrvLev),
                                     Fluxes_byband(col_block, DrvLev, get_nband(DrvDisc)))
           /\ drv_writes' = CountWrites(drv_writes, col_e - col_s + 1, col_s)
           /\ drv_calls' = Append(drv_calls, <<col_s, col_e>>)
    /\ drv_b' = drv_b + 1
    /\ UNCHANGED <<n_col, col_block, drv_in, pc_drv>>

\* the loop ends: b > n_blocks
DrvBlocksDone ==
    /\ pc_drv = "blocks"
    /\ drv_b > n_blocks
    /\ pc_drv' = "left"
    /\ UNCHANGED <<n_col, col_block, drv_in, drv_b, lw_out, drv_writes, drv_calls>>

\* if (n_col_block_left > 0) { ... }: lines 477-495
DrvLeftover ==
    /\ pc_drv = "left"
    /\ n_col_block_left > 0
    /\ LET col_s == n_col - n_col_block_left + 1
           col_e == n_col
       IN  /\ lw_out' = call_kernels(col_s, col_e, drv_in, lw_out,
                                     Fluxes_broadband(n_col_block_left, DrvLev),
                                     Fluxes_byband(n_col_block_left, DrvLev,
                                                   get_nband(DrvDisc)))
           /\ drv_writes' = CountWrites(drv_writes, col_e - col_s + 1, col_s)
           /\ drv_calls' = Append(drv_calls, <<col_s, col_e>>)
    /\ pc_drv' = "done"
    /\ UNCHANGED <<n_col, col_block, drv_in, drv_b>>

\* no columns are left over
DrvNoLeftover ==
    /\ pc_drv = "left"
    /\ ~(n_col_block_left > 0)
    /\ pc_drv' = "done"
    /\ UNCHANGED <<n_col, col_block, drv_in, drv_b, lw_out, drv_writes, drv_calls>>

\* ---- aerosol_optics on operands whose extents disagree

\* a({i, j}) of an Array: the element at the position the extents of a give
\* the index, and past the end of a whatever the memory holds
ArrRead(a, idx, garbage_value) ==
    IF Offset(a.dim, idx) < Size(a.dim)
    THEN a.data[Unflat(a.dim, Offset(a.dim, idx))]
    ELSE garbage_value

\* what the loops over 1..n1, 1..n2 read of a
View2(a, n1, n2, garbage_value) ==
    Array2(n1, n2, [i \in 1..n1, j \in 1..n2 |-> ArrRead(a, <<i, j>>, garbage_value)])

\* the arguments as the loops over the extents of rh read them
ViewArgs(in, garbage_value) ==
    LET ncol == in.rh.dim[1]
        nlay == in.rh.dim[2]
    IN  [aermr |-> [k \in DOMAIN in.aermr |-> View2(in.aermr[k], ncol, nlay, garbage_value)],
         rh    |-> in.rh,
         dpg   |-> View2(in.dpg, ncol, nlay, garbage_value)]

\* some a({icol, ilay}) of the loops lies past the end of a mixing ratio or
\* of the dry-air path
ArgsOverrun(in) ==
    \E idx \in Indices(in.rh.dim) :
        \/ Offset(in.dpg.dim, idx) >= Size(in.dpg.dim)
        \/ \E k \in DOMAIN in.aermr : Offset(in.aermr[k].dim, idx) >= Size(in.aermr[k].dim)

\* the (column, layer) extents of rh, the other fields and the target agree
AerShapesAgree(in, props) ==
    /\ in.dpg.dim = in.rh.dim
    /\ \A k \in DOMAIN in.aermr : in.aermr[k].dim = in.rh.dim
    /\ <<props.tau.dim[1], props.tau.dim[2]>> = in.rh.dim

\* out-of-range reads of the humidity lookup do not occur in these calls
NoGarbage == [over |-> 1, mext |-> 0, ssa |-> 0, g |-> 0]

\* the arguments of a call whose extents disagree somewhere: rh of extents
\* within those of the target, the other fields of extents of their own,
\* every humidity within the upper bounds
MismatchedArgs(in) ==
    \E profile \in {[k \in 1..Len(list_aerosol_types) |-> k]}, d \in DryPaths,
       rdim \in AerDims, odim \in AerDims :
        /\ rdim[1] <= optical_props.tau.dim[1]
        /\ rdim[2] <= optical_props.tau.dim[2]
        /\ in = [AerosolArgs(profile, 0, 0, d, odim[1], odim[2]) EXCEPT
                    !.rh = AerosolArgs(profile, 0, 0, d, rdim[1], rdim[2]).rh]
        /\ ~AerShapesAgree(in, optical_props)

\* aerosol_optics on operands whose extents disagree: the call returns
AerosolMismatchedReturns ==
    /\ pc_aer = "idle"
    /\ MismatchedArgs(aer_in')
    /\ \E garbage_value \in GarbageValues :
          LET ncol == aer_in'.rh.dim[1]
              nlay == aer_in'.rh.dim[2]
              nbnd == aerosol.nband
              seen == ViewArgs(aer_in', garbage_value)
          IN  /\ ~ArgsOverrun(aer_in') => garbage_value = 0
              /\ aer_tmp' = compute_all_from_table(ncol, nlay, nbnd, aerosol, seen, NoGarbage)
              /\ aer_ihum' = IhumField(aerosol, seen, NoGarbage)
              /\ optical_props' = StoreOptics(ncol, nlay, nbnd, aer_tmp', optical_props)
    /\ pc_aer' = "done"
    /\ UNCHANGED aerosol

\* aerosol_optics on operands whose extents disagree: a read past the end of
\* a field faults
AerosolMismatchedFaults ==
    /\ pc_aer = "idle"
    /\ MismatchedArgs(aer_in')
    /\ ArgsOverrun(aer_in')
    /\ pc_aer' = "crashed"
    /\ UNCHANGED <<aerosol, optical_props, aer_tmp, aer_ihum>>

-----------------------------------------------------------------------------
(* Source_func_lw_rt: src/include_rt/Source_functions_rt.h:32-66.  The     *)
(* object holds one column and one layer, so every member is one value.    *)

\* the private members, lines 61-65
SourceMembers ==
    {"sfc_source", "sfc_source_jac", "lay_source", "lev_source_inc", "lev_source_dec"}

\* the accessors, lines 48-58
SourceAccessors ==
    {"get_sfc_source", "get_sfc_source_jac", "get_lay_source", "get_lev_source_inc",
     "get_lev_source_dec"}

\* mutant: get_sfc_source_jac() returns sfc_source
NonConstAccessorJacSlip(accessor) ==
    CASE accessor = "get_sfc_source"     -> "sfc_source"
      [] accessor = "get_sfc_source_jac" -> "sfc_source"
      [] accessor = "get_lay_source"     -> "lay_source"
      [] accessor = "get_lev_source_inc" -> "lev_source_inc"
      [] accessor = "get_lev_source_dec" -> "lev_source_dec"

\* the member a non-const accessor returns a reference to, lines 48-52
NonConstAccessor(accessor) ==
    CASE accessor = "get_sfc_source"     -> "sfc_source"
      [] accessor = "get_sfc_source_jac" -> "sfc_source_jac"
      [] accessor = "get_lay_source"     -> "lay_source"
      [] accessor = "get_lev_source_inc" -> "lev_source_inc"
      [] accessor = "get_lev_source_dec" -> "lev_source_dec"

\* the member a const accessor returns a reference to, lines 54-58
ConstAccessor(accessor) ==
    CASE accessor = "get_sfc_source"     -> "sfc_source"
      [] accessor = "get_sfc_source_jac" -> "sfc_source_jac"
      [] accessor = "get_lay_source"     -> "lay_source"
      [] accessor = "get_lev_source_inc" -> "lev_source_inc"
      [] accessor = "get_lev_source_dec" -> "lev_source_dec"

SourceValues == 0..MaxSrc

NotSeen == [accessor |-> "none", value |-> 0]

SrcInit ==
    /\ sources = [m \in SourceMembers |-> 0]
    /\ src_acc = "none"
    /\ src_seen = NotSeen

\* accessor() = v through the non-const accessor
WriteThrough(accessor, v) ==
    /\ sources' = [sources EXCEPT ![NonConstAccessor(accessor)] = v]
    /\ src_acc' = accessor
    /\ src_seen' = NotSeen

\* a read through the const accessor
ReadThrough(accessor) ==
    /\ src_seen' = [accessor |-> accessor, value |-> sources[ConstAccessor(accessor)]]
    /\ src_seen' # src_seen
    /\ UNCHANGED <<sources, src_acc>>

SetSfcSource == \E v \in SourceValues : WriteThrough("get_sfc_source", v)

SetSfcSourceJac == \E v \in SourceValues : WriteThrough("get_sfc_source_jac", v)

SetLaySource == \E v \in SourceValues : WriteThrough("get_lay_source", v)

SetLevSourceInc == \E v \in SourceValues : WriteThrough("get_lev_source_inc", v)

SetLevSourceDec == \E v \in SourceValues : WriteThrough("get_lev_source_dec", v)

ReadSource == \E accessor \in SourceAccessors : ReadThrough(accessor)

-----------------------------------------------------------------------------
(* Float values of the solvers: exact quotients num/den with den >= 0, in  *)
(* lowest terms.  As in IEEE arithmetic a division by zero is not an       *)
(* error: 1/0 is the infinity, -1/0 the negative infinity and 0/0 the NaN, *)
(* which every operation hands on.                                         *)

RECURSIVE GCD(_, _)
GCD(a, b) == IF b = 0 THEN a ELSE CHOOSE k \in {GCD(b, m) : m \in {a % b}} : TRUE

Abs(x) == IF x < 0 THEN 0 - x ELSE x

Sign(x) == IF x < 0 THEN 0 - 1 ELSE IF x > 0 THEN 1 ELSE 0

\* the value n / d of two whole numbers
Flt(n, d) ==
    IF d = 0 THEN [num |-> Sign(n), den |-> 0]
    ELSE CHOOSE v \in {[num |-> (Sign(d) * n) \div k, den |-> Abs(d) \div k] :
                          k \in {GCD(Abs(n), Abs(d))}} : TRUE

NaN == [num |-> 0, den |-> 0]

IsNaN(x) == x.den = 0 /\ x.num = 0

IsInf(x) == x.den = 0 /\ x.num # 0

IsFinite(x) == x.den # 0

\* the product of two values, the common factors cancelled before
\* multiplying
Product(x, y) ==
    IF x.den = 0 \/ y.den = 0
    THEN Flt(Sign(x.num) * Sign(y.num), Sign(x.den) * Sign(y.den))
    ELSE CHOOSE v \in {Flt((x.num \div k1) * (y.num \div k2),
                           (x.den \div k2) * (y.den \div k1)) :
                          k1 \in {GCD(Abs(x.num), y.den)},
                          k2 \in {GCD(Abs(y.num), x.den)}} : TRUE

\* the sum of two values, over the least common denominator
Total(x, y) ==
    IF IsNaN(x) \/ IsNaN(y) THEN NaN
    ELSE IF IsInf(x) THEN (IF IsInf(y) /\ y.num # x.num THEN NaN ELSE x)
    ELSE IF IsInf(y) THEN y
    ELSE CHOOSE v \in {Flt(x.num * (y.den \div k) + y.num * (x.den \div k),
                           (x.den \div k) * y.den) :
                          k \in {GCD(x.den, y.den)}} : TRUE

\* the operations on expressions: each operand is evaluated once
FltMul(x, y) == CHOOSE v \in {Product(a, b) : a \in {x}, b \in {y}} : TRUE

FltAdd(x, y) == CHOOSE v \in {Total(a, b) : a \in {x}, b \in {y}} : TRUE

FltNeg(x) == [num |-> 0 - x.num, den |-> x.den]

FltSub(x, y) == FltAdd(x, FltNeg(y))

Reciprocal(y) == Flt(y.den * (IF y.num < 0 THEN 0 - 1 ELSE 1), Abs(y.num))

FltDiv(x, y) == CHOOSE v \in {Product(a, Reciprocal(b)) : a \in {x}, b \in {y}} : TRUE

RECURSIVE Pow2(_)
Pow2(k) == IF k <= 0 THEN 1 ELSE 2 * Pow2(k - 1)

\* exp(-x), with x in units of ln 2 (whole units in the model)
ExpNeg(x) ==
    IF IsNaN(x) THEN NaN
    ELSE IF IsInf(x) THEN (IF x.num > 0 THEN Flt(0, 1) ELSE Flt(1, 0))
    ELSE LET k == x.num \div x.den
         IN  IF k >= 0 THEN Flt(1, Pow2(k)) ELSE Flt(Pow2(0 - k), 1)

-----------------------------------------------------------------------------
(* The shortwave two-stream solver, declared at                            *)
(* src/include/rte_kernel_launcher_cuda.h:35-53.  One spectral point is    *)
(* modelled (the spectral points do not interact), the top of the domain   *)
(* is at index 1 and there is no incident diffuse flux.                    *)

\* apply_BC for the direct beam: the incident flux on a horizontal surface
apply_BC(inc_flux_dir, mu0) == FltMul(inc_flux_dir, mu0)

\* the direct-beam transmittance of a layer: exponential extinction along mu0
Tnoscat(tau, mu0) == ExpNeg(FltDiv(tau, mu0))

\* the two-stream coefficients of a layer that extinguishes: the scattered
\* part of what the layer removes is split between the hemispheres by the
\* backscattered fraction (1 - g) / 2
ExtinguishingLayer(tau, ssa, g, mu0) ==
    LET one == Flt(1, 1)
        back == FltDiv(FltSub(one, g), Flt(2, 1))
        removed_dif == FltSub(one, ExpNeg(tau))
        removed_dir == FltSub(one, Tnoscat(tau, mu0))
    IN  [Rdif |-> FltMul(ssa, FltMul(back, removed_dif)),
         Tdif |-> FltAdd(ExpNeg(tau),
                         FltMul(ssa, FltMul(FltSub(one, back), removed_dif))),
         Rdir |-> FltMul(ssa, FltMul(back, removed_dir)),
         Tdir |-> FltMul(ssa, FltMul(FltSub(one, back), removed_dir)),
         Tnoscat |-> Tnoscat(tau, mu0)]

\* a layer of optical depth zero: transmittance 1, reflectance 0
IdentityLayer ==
    [Rdif |-> Flt(0, 1), Tdif |-> Flt(1, 1), Rdir |-> Flt(0, 1), Tdir |-> Flt(0, 1),
     Tnoscat |-> Flt(1, 1)]

two_stream_NoIdentity(tau, ssa, g, mu0) == ExtinguishingLayer(tau, ssa, g, mu0)

\* the two-stream coefficients of a layer from (tau, ssa, g, mu0)
two_stream(tau, ssa, g, mu0) ==
    IF tau = Flt(0, 1) THEN IdentityLayer ELSE ExtinguishingLayer(tau, ssa, g, mu0)

\* the direct beam from the top down: dir holds the levels done so far
RECURSIVE DirectBeam(_, _)
DirectBeam(lay, dir) ==
    IF Len(dir) = Len(lay) + 1 THEN dir
    ELSE DirectBeam(lay, Append(dir, FltMul(lay[Len(dir)].Tnoscat, dir[Len(dir)])))

\* the adding of the layers from the surface up: below holds the albedo and
\* the source of the levels ilay + 1 .. nlay + 1, the stack under each level
\* taken as one slab
RECURSIVE AddLayers(_, _, _, _)
AddLayers(lay, dir, ilay, below) ==
    IF ilay = 0 THEN below
    ELSE LET under == below[1]
             denom == FltSub(Flt(1, 1), FltMul(lay[ilay].Rdif, under.albedo))
             source_up == FltMul(lay[ilay].Rdir, dir[ilay])
             source_dn == FltMul(lay[ilay].Tdir, dir[ilay])
             albedo == FltAdd(lay[ilay].Rdif,
                              FltDiv(FltMul(FltMul(lay[ilay].Tdif, lay[ilay].Tdif),
                                            under.albedo),
                                     denom))
             src == FltAdd(source_up,
                           FltDiv(FltMul(lay[ilay].Tdif,
                                         FltAdd(under.src,
                                                FltMul(under.albedo, source_dn))),
                                  denom))
         IN  AddLayers(lay, dir, ilay - 1, <<[albedo |-> albedo, src |-> src]>> \o below)

\* the diffuse flux down from the top: dn holds the levels done so far
RECURSIVE DiffuseDown(_, _, _, _)
DiffuseDown(lay, dir, added, dn) ==
    IF Len(dn) = Len(lay) + 1 THEN dn
    ELSE LET ilay == Len(dn)
             under == added[ilay + 1]
             source_dn == FltMul(lay[ilay].Tdir, dir[ilay])
             next == FltDiv(FltAdd(FltMul(lay[ilay].Tdif, dn[ilay]),
                                   FltAdd(FltMul(lay[ilay].Rdif, under.src), source_dn)),
                            FltSub(Flt(1, 1), FltMul(lay[ilay].Rdif, under.albedo)))
         IN  DiffuseDown(lay, dir, added, Append(dn, next))

\* one column of sw_solver_2stream: the coefficients of the layers, the
\* direct beam from the boundary condition at the top, the adding of the
\* layers above the surface, the diffuse fluxes
sw_column(nlay, tau, ssa, g, mu0, sfc_alb_dir, sfc_alb_dif, inc_flux_dir) ==
    LET lay == [ilay \in 1..nlay |-> two_stream(tau[ilay], ssa[ilay], g[ilay], mu0)]
        dir == DirectBeam(lay, <<apply_BC(inc_flux_dir, mu0)>>)
        surface == [albedo |-> sfc_alb_dif, src |-> FltMul(dir[nlay + 1], sfc_alb_dir)]
        added == AddLayers(lay, dir, nlay, <<surface>>)
        dn == DiffuseDown(lay, dir, added, <<Flt(0, 1)>>)
        up == [ilev \in 1..(nlay + 1) |->
                  FltAdd(FltMul(dn[ilev], added[ilev].albedo), added[ilev].src)]
    IN  [flux_up |-> up, flux_dn |-> dn, flux_dir |-> dir]

\* sw_solver_2stream: every column by itself
sw_solver_2stream(ncol, nlay, tau, ssa, g, mu0, sfc_alb_dir, sfc_alb_dif, inc_flux_dir) ==
    LET col == [icol \in 1..ncol |->
                   sw_column(nlay, [ilay \in 1..nlay |-> tau[icol, ilay]],
                             [ilay \in 1..nlay |-> ssa[icol, ilay]],
                             [ilay \in 1..nlay |-> g[icol, ilay]],
                             mu0[icol], sfc_alb_dir[icol], sfc_alb_dif[icol],
                             inc_flux_dir[icol])]
        Levels == (1..ncol) \X (1..(nlay + 1))
    IN  [flux_up  |-> [l \in Levels |-> col[l[1]].flux_up[l[2]]],
         flux_dn  |-> [l \in Levels |-> col[l[1]].flux_dn[l[2]]],
         flux_dir |-> [l \in Levels |-> col[l[1]].flux_dir[l[2]]]]

\* ---- the calls enumerated
\* a layer: its optical depth, single-scattering albedo and asymmetry
SwLayers ==
    {[tau |-> Flt(0, 1), ssa |-> Flt(0, 1), g |-> Flt(0, 1)],
     [tau |-> Flt(1, 1), ssa |-> Flt(0, 1), g |-> Flt(0, 1)],
     [tau |-> Flt(1, 1), ssa |-> Flt(1, 1), g |-> Flt(0, 1)],
     [tau |-> Flt(2, 1), ssa |-> Flt(1, 1), g |-> Flt(1, 2)]}

\* cosines of the solar zenith angle: no illumination, 60 degrees, overhead
Mu0Values == <<Flt(0, 1), Flt(1, 2), Flt(1, 1)>>

\* the columns hold the same layers under different suns: column icol has
\* the (first + icol - 1)-th cosine, cyclically
SwArgs ==
    {[ncol |-> MaxSlvCol, nlay |-> Len(stack),
      tau |-> [icol \in 1..MaxSlvCol, ilay \in 1..Len(stack) |-> stack[ilay].tau],
      ssa |-> [icol \in 1..MaxSlvCol, ilay \in 1..Len(stack) |-> stack[ilay].ssa],
      g |-> [icol \in 1..MaxSlvCol, ilay \in 1..Len(stack) |-> stack[ilay].g],
      mu0 |-> [icol \in 1..MaxSlvCol |->
                  Mu0Values[((first + icol - 2) % Len(Mu0Values)) + 1]],
      sfc_alb_dir |-> [icol \in 1..MaxSlvCol |-> alb],
      sfc_alb_dif |-> [icol \in 1..MaxSlvCol |-> alb],
      inc_flux_dir |-> [icol \in 1..MaxSlvCol |-> Flt(8, 1)]] :
        stack \in UNION {[1..n -> SwLayers] : n \in 1..MaxSlvLay},
        first \in 1..Len(Mu0Values),
        alb \in {Flt(0, 1), Flt(1, 2)}}

NoSwArgs == [ncol |-> 0, nlay |-> 0]

NoSwFlux == [flux_up |-> <<>>, flux_dn |-> <<>>, flux_dir |-> <<>>]

SwInit ==
    /\ sw_in \in SwArgs
    /\ sw_flux = NoSwFlux
    /\ pc_sw = "idle"

\* the call of sw_solver_2stream on the arguments
SwSolve ==
    /\ pc_sw = "idle"
    /\ sw_in.ncol > 0
    /\ sw_flux' = sw_solver_2stream(sw_in.ncol, sw_in.nlay, sw_in.tau, sw_in.ssa, sw_in.g,
                                    sw_in.mu0, sw_in.sfc_alb_dir, sw_in.sfc_alb_dif,
                                    sw_in.inc_flux_dir)
    /\ pc_sw' = "done"
    /\ UNCHANGED <<sw_in, lw_in, lw_flux, pc_lw>>

SwIdle ==
    /\ sw_in = NoSwArgs
    /\ sw_flux = NoSwFlux
    /\ pc_sw = "idle"

-----------------------------------------------------------------------------
(* The longwave no-scattering solver, declared at                          *)
(* src/include/rte_kernel_launcher_cuda.h:55-66.  One spectral point is    *)
(* modelled and the top of the domain is at index 1.  Every secant of the  *)
(* model is a whole multiple of 1.66 and every optical depth a whole       *)
(* number, so every transmissivity exp(-tau * secant) is a power of        *)
(* T = exp(-1.66); a flux is the polynomial in T of its coefficients       *)
(* <<c0, c1, ...>>, that is c0 + c1 * T + ..., with no trailing zero.      *)

RECURSIVE PolyNorm(_)
PolyNorm(p) ==
    IF p # <<>> /\ p[Len(p)] = 0 THEN PolyNorm(SubSeq(p, 1, Len(p) - 1)) ELSE p

PolyCoef(p, k) == IF k \in 1..Len(p) THEN p[k] ELSE 0

PolyAdd(p, q) ==
    PolyNorm([k \in 1..Max(Len(p), Len(q)) |-> PolyCoef(p, k) + PolyCoef(q, k)])

PolyScale(c, p) == PolyNorm([k \in 1..Len(p) |-> c * p[k]])

\* p * T^n
PolyShift(n, p) ==
    IF p = <<>> THEN p ELSE [k \in 1..(Len(p) + n) |-> PolyCoef(p, k - n)]

\* the number c
PolyOf(c) == PolyNorm(<<c>>)

\* what a layer of transmissivity T^n lets through of the radiance p
Transmitted(n, p) == PolyShift(n, p)

\* what a layer of transmissivity T^n and of the source lay_source emits:
\* the level sources of a layer of the model equal its layer source, so
\* the source interpolated between them is the layer source
Emitted_NoTransmissivity(n, lay_source) == PolyOf(lay_source)

Emitted(n, lay_source) ==
    PolyAdd(PolyOf(lay_source), PolyScale(0 - 1, PolyShift(n, PolyOf(lay_source))))

\* one column and one quadrature angle: down from the top, the surface, up
\* from the surface
lw_angle(nlay, secant, tau, lay_source, sfc_emis, sfc_src, inc_flux) ==
    LET n == [ilay \in 1..nlay |-> tau[ilay] * secant]
        dn[ilev \in 1..(nlay + 1)] ==
            IF ilev = 1 THEN PolyOf(inc_flux)
            ELSE PolyAdd(Transmitted(n[ilev - 1], dn[ilev - 1]),
                         Emitted(n[ilev - 1], lay_source[ilev - 1]))
        up[ilev \in 1..(nlay + 1)] ==
            IF ilev = nlay + 1
            THEN PolyAdd(PolyOf(sfc_emis * sfc_src), PolyScale(1 - sfc_emis, dn[nlay + 1]))
            ELSE PolyAdd(Transmitted(n[ilev], up[ilev + 1]),
                         Emitted(n[ilev], lay_source[ilev]))
    IN  [up |-> up, dn |-> dn]

RECURSIVE WeightedSum(_, _, _, _)
WeightedSum(weights, radiance, ilev, imu) ==
    IF imu = 0 THEN <<>>
    ELSE PolyAdd(WeightedSum(weights, radiance, ilev, imu - 1),
                 PolyScale(weights[imu], radiance[imu][ilev]))

\* lw_solver_noscat_gaussquad: every column by itself, the angles summed
\* with their weights
lw_solver_noscat_gaussquad(ncol, nlay, nmus, secants, weights, tau, lay_source, sfc_emis, sfc_src, inc_flux) ==
    LET angle == [icol \in 1..ncol, imu \in 1..nmus |->
                     lw_angle(nlay, secants[imu],
                              [ilay \in 1..nlay |-> tau[icol, ilay]],
                              [ilay \in 1..nlay |-> lay_source[icol, ilay]],
                              sfc_emis[icol], sfc_src[icol], inc_flux[icol])]
    IN  [flux_up |-> [icol \in 1..ncol, ilev \in 1..(nlay + 1) |->
                         WeightedSum(weights, [imu \in 1..nmus |-> angle[icol, imu].up],
                                     ilev, nmus)],
         flux_dn |-> [icol \in 1..ncol, ilev \in 1..(nlay + 1) |->
                         WeightedSum(weights, [imu \in 1..nmus |-> angle[icol, imu].dn],
                                     ilev, nmus)]]

\* ---- the calls enumerated
\* a layer: its optical depth and its source (the sources at its two levels
\* are the same)
LwLayers == {[tau |-> t, source |-> b] : t \in 0..2, b \in {50, 100}}

\* the secants in units of 1.66, and the weights
LwAngles == {[secants |-> <<1>>, weights |-> <<1>>],
             [secants |-> <<1, 2>>, weights |-> <<1, 1>>]}

LwArgs ==
    {[ncol |-> ncol, nlay |-> Len(stack), nmus |-> Len(angles.secants),
      secants |-> angles.secants, weights |-> angles.weights,
      tau |-> [icol \in 1..ncol, ilay \in 1..Len(stack) |-> stack[ilay].tau],
      lay_source |-> [icol \in 1..ncol, ilay \in 1..Len(stack) |-> icol * stack[ilay].source],
      lev_source_inc |-> [icol \in 1..ncol, ilay \in 1..Len(stack) |-> icol * stack[ilay].source],
      lev_source_dec |-> [icol \in 1..ncol, ilay \in 1..Len(stack) |-> icol * stack[ilay].source],
      sfc_emis |-> [icol \in 1..ncol |-> emis],
      sfc_src |-> [icol \in 1..ncol |-> icol * 100],
      inc_flux |-> [icol \in 1..ncol |-> inc]] :
        ncol \in 1..MaxSlvCol,
        stack \in UNION {[1..n -> LwLayers] : n \in 1..MaxSlvLay},
        angles \in LwAngles, emis \in 0..1, inc \in {0, 50}}

NoLwArgs == [ncol |-> 0, nlay |-> 0]

NoLwFlux == [flux_up |-> <<>>, flux_dn |-> <<>>]

LwInit ==
    /\ lw_in \in LwArgs
    /\ lw_flux = NoLwFlux
    /\ pc_lw = "idle"

\* the call of lw_solver_noscat_gaussquad on the arguments
LwSolve ==
    /\ pc_lw = "idle"
    /\ lw_in.ncol > 0
    /\ lw_flux' = lw_solver_noscat_gaussquad(lw_in.ncol, lw_in.nlay, lw_in.nmus,
                                             lw_in.secants, lw_in.weights, lw_in.tau,
                                             lw_in.lay_source, lw_in.sfc_emis,
                                             lw_in.sfc_src, lw_in.inc_flux)
    /\ pc_lw' = "done"
    /\ UNCHANGED <<lw_in, sw_in, sw_flux, pc_sw>>

LwIdle ==
    /\ lw_in = NoLwArgs
    /\ lw_flux = NoLwFlux
    /\ pc_lw = "idle"

-----------------------------------------------------------------------------
(* main: src/src_test/test_rte_rrtmgp.cpp:558-583.  A step of the try      *)
(* block either runs to its end or raises an exception, which leaves the   *)
(* try block for the first handler that matches it.                        *)

\* the steps of the try block for a run of n call_kernels invocations:
\* master.start(), master.init() and those of solve_radiation (reading the
\* input, the message of line 373, the blocks, the message of line 499,
\* saving the output)
RunSteps(n) ==
    <<"start", "init", "read_input", "print_solving">>
        \o [b \in 1..n |-> "call_kernels"]
        \o <<"print_saving", "save_output">>

\* what a step can raise: an object derived from std::exception, with what
\* e.what() gives, or an object of any other type
Exceptions ==
    {[kind |-> "std::exception", what |-> w] : w \in {"runtime_error", "bad_alloc"}}
        \cup {[kind |-> "other", what |-> ""]}

NoException == [kind |-> "none", what |-> ""]

NoReturn == 0 - 1

\* what master.print_message prints for the format and its argument
print_message(format, arg) == <<format, arg>>

\* the message a step of solve_radiation prints when it runs to its end
StepOutput(step) ==
    IF step = "print_solving" THEN <<print_message("Solving the radiation.\n", "")>>
    ELSE IF step = "print_saving"
         THEN <<print_message("Saving the output to NetCDF.\n", "")>>
         ELSE <<>>

\* the first handler of lines 570-579 that matches the exception e
Handler(e) == IF e.kind = "std::exception" THEN "catch_std" ELSE "catch_all"

MainInit ==
    /\ main_n \in 0..MaxMainBlocks
    /\ main_pc = "try"
    /\ main_next = 1
    /\ main_exc = NoException
    /\ main_done = <<>>
    /\ main_out = <<>>
    /\ main_ret = NoReturn

\* the next step of the try block runs to its end
MainStepCompletes ==
    /\ main_pc = "try"
    /\ main_next <= Len(RunSteps(main_n))
    /\ main_done' = Append(main_done, RunSteps(main_n)[main_next])
    /\ main_out' = main_out \o StepOutput(RunSteps(main_n)[main_next])
    /\ main_next' = main_next + 1
    /\ UNCHANGED <<main_n, main_pc, main_exc, main_ret>>

\* the next step of the try block raises an exception: control leaves the
\* try block for the matching handler
MainStepRaises ==
    /\ main_pc = "try"
    /\ main_next <= Len(RunSteps(main_n))
    /\ \E e \in Exceptions :
          /\ main_exc' = e
          /\ main_pc' = Handler(e)
    /\ UNCHANGED <<main_n, main_next, main_done, main_out, main_ret>>

\* mutant: the handler prints and falls through to the return of line 582
MainCatchStdFallsThrough ==
    /\ main_pc = "catch_std"
    /\ main_out' = Append(main_out, print_message("EXCEPTION: %s\n", main_exc.what))
    /\ main_ret' = 0
    /\ main_pc' = "returned"
    /\ UNCHANGED <<main_n, main_next, main_exc, main_done>>

\* catch (const std::exception& e): lines 570-574
MainCatchStd ==
    /\ main_pc = "catch_std"
    /\ main_out' = Append(main_out, print_message("EXCEPTION: %s\n", main_exc.what))
    /\ main_ret' = 1
    /\ main_pc' = "returned"
    /\ UNCHANGED <<main_n, main_next, main_exc, main_done>>

\* catch (...): lines 575-579
MainCatchAll ==
    /\ main_pc = "catch_all"
    /\ main_out' = Append(main_out, print_message("UNHANDLED EXCEPTION!\n", ""))
    /\ main_ret' = 1
    /\ main_pc' = "returned"
    /\ UNCHANGED <<main_n, main_next, main_exc, main_done>>

\* the try block ran to its end: return 0 (line 582)
MainReturnsZero ==
    /\ main_pc = "try"
    /\ main_next > Len(RunSteps(main_n))
    /\ main_ret' = 0
    /\ main_pc' = "returned"
    /\ UNCHANGED <<main_n, main_next, main_exc, main_done, main_out>>

\* main at rest
MainIdle ==
    /\ main_n = 0
    /\ main_pc = "idle"
    /\ main_next = 1
    /\ main_exc = NoException
    /\ main_done = <<>>
    /\ main_out = <<>>
    /\ main_ret = NoReturn

-----------------------------------------------------------------------------
(* The specifications, one per component.                                  *)

\* the flux component at rest, for the specifications of the other components
FxIdle ==
    /\ fx_kind = "broadband"
    /\ spectral_disc = [ngpt |-> 1, nband |-> 1, band_lims_gpoint |-> <<<<1, 1>>>>]
    /\ fluxes = Fluxes_broadband(1, 1)
    /\ gpt_flux_up = ZeroArray3(1, 1, 1)
    /\ gpt_flux_dn = ZeroArray3(1, 1, 1)
    /\ gpt_flux_dn_dir = ZeroArray3(1, 1, 1)
    /\ fx_last = "none"

\* the rh_class component at rest
RhIdle ==
    /\ rh2 = <<0>>
    /\ rel_hum = 0
    /\ ihum = 0
    /\ rh_class = 0
    /\ pc_rh = "done"
    /\ oob = FALSE

\* the aerosol component at rest
AerIdle ==
    /\ aerosol = AerosolTable(<<0>>, 0)
    /\ aer_in = NoArgs
    /\ optical_props = PriorProps(0, 1, 1, 0)
    /\ aer_tmp = NoTmp
    /\ aer_ihum = ZeroArray2(1, 1)
    /\ pc_aer = "idle"

\* the driver at rest
DrvIdle ==
    /\ n_col = 0
    /\ col_block = 1
    /\ drv_in = <<>>
    /\ drv_b = 1
    /\ lw_out = LwOutInit(0)
    /\ drv_writes = <<>>
    /\ drv_calls = <<>>
    /\ pc_drv = "idle"

\* the source-function holder at rest
SrcIdle ==
    /\ sources = [m \in SourceMembers |-> 0]
    /\ src_acc = "idle"
    /\ src_seen = NotSeen

\* the solvers at rest
SlvIdle == SwIdle /\ LwIdle

NextRh ==
    \/ RhEntry /\ UNCHANGED <<fxVars, aerVars, drvVars, srcVars, slvVars, mainVars>>
    \/ RhLoopInRange /\ UNCHANGED <<fxVars, aerVars, drvVars, srcVars, slvVars, mainVars>>
    \/ RhLoopOverrunReads /\ UNCHANGED <<fxVars, aerVars, drvVars, srcVars, slvVars, mainVars>>
    \/ RhLoopOverrunFaults /\ UNCHANGED <<fxVars, aerVars, drvVars, srcVars, slvVars, mainVars>>
    \/ RhReturn /\ UNCHANGED <<fxVars, aerVars, drvVars, srcVars, slvVars, mainVars>>

InitRh == RhInit /\ FxIdle /\ AerIdle /\ DrvIdle /\ SrcIdle /\ SlvIdle /\ MainIdle

SpecRh == InitRh /\ [][NextRh]_vars

NextFlux ==
    \/ BroadbandReduce /\ UNCHANGED <<rhVars, aerVars, drvVars, srcVars, slvVars, mainVars>>
    \/ BroadbandReduceDir /\ UNCHANGED <<rhVars, aerVars, drvVars, srcVars, slvVars, mainVars>>
    \/ BybandReduce /\ UNCHANGED <<rhVars, aerVars, drvVars, srcVars, slvVars, mainVars>>
    \/ BybandReduceDir /\ UNCHANGED <<rhVars, aerVars, drvVars, srcVars, slvVars, mainVars>>

InitFlux == FxInit /\ RhIdle /\ AerIdle /\ DrvIdle /\ SrcIdle /\ SlvIdle /\ MainIdle

SpecFlux == InitFlux /\ [][NextFlux]_vars

NextAer ==
    \/ AerosolOptics /\ UNCHANGED <<rhVars, fxVars, drvVars, srcVars, slvVars, mainVars>>
    \/ AerosolOpticsFaults /\ UNCHANGED <<rhVars, fxVars, drvVars, srcVars, slvVars, mainVars>>

InitAer == AerInit /\ RhIdle /\ FxIdle /\ DrvIdle /\ SrcIdle /\ SlvIdle /\ MainIdle

SpecAer == InitAer /\ [][NextAer]_vars

NextDrv ==
    \/ DrvFullBlock /\ UNCHANGED <<rhVars, fxVars, aerVars, srcVars, slvVars, mainVars>>
    \/ DrvBlocksDone /\ UNCHANGED <<rhVars, fxVars, aerVars, srcVars, slvVars, mainVars>>
    \/ DrvLeftover /\ UNCHANGED <<rhVars, fxVars, aerVars, srcVars, slvVars, mainVars>>
    \/ DrvNoLeftover /\ UNCHANGED <<rhVars, fxVars, aerVars, srcVars, slvVars, mainVars>>

InitDrv == DrvInit /\ RhIdle /\ FxIdle /\ AerIdle /\ SrcIdle /\ SlvIdle /\ MainIdle

SpecDrv == InitDrv /\ [][NextDrv]_vars

\* calls whose operands disagree in their extents: of reduce while the
\* aerosol component is at rest, of aerosol_optics while the flux component is
NextShape ==
    \/ AerIdle /\ ReduceMismatchedReturns /\ UNCHANGED <<rhVars, aerVars, drvVars, srcVars, slvVars, mainVars>>
    \/ AerIdle /\ ReduceMismatchedFaults /\ UNCHANGED <<rhVars, aerVars, drvVars, srcVars, slvVars, mainVars>>
    \/ FxIdle /\ AerosolMismatchedReturns /\ UNCHANGED <<rhVars, fxVars, drvVars, srcVars, slvVars, mainVars>>
    \/ FxIdle /\ AerosolMismatchedFaults /\ UNCHANGED <<rhVars, fxVars, drvVars, srcVars, slvVars, mainVars>>

InitShape ==
    /\ RhIdle
    /\ DrvIdle
    /\ SrcIdle
    /\ SlvIdle
    /\ MainIdle
    /\ \/ FxInit /\ AerIdle
       \/ AerInit /\ FxIdle

SpecShape == InitShape /\ [][NextShape]_vars

NextSw ==
    \/ SwSolve /\ UNCHANGED <<rhVars, fxVars, aerVars, drvVars, srcVars, mainVars>>

InitSw == SwInit /\ LwIdle /\ RhIdle /\ FxIdle /\ AerIdle /\ DrvIdle /\ SrcIdle /\ MainIdle

SpecSw == InitSw /\ [][NextSw]_vars

NextLw ==
    \/ LwSolve /\ UNCHANGED <<rhVars, fxVars, aerVars, drvVars, srcVars, mainVars>>

InitLw == LwInit /\ SwIdle /\ RhIdle /\ FxIdle /\ AerIdle /\ DrvIdle /\ SrcIdle /\ MainIdle

SpecLw == InitLw /\ [][NextLw]_vars

NextSrc ==
    \/ SetSfcSource /\ UNCHANGED <<rhVars, fxVars, aerVars, drvVars, slvVars, mainVars>>
    \/ SetSfcSourceJac /\ UNCHANGED <<rhVars, fxVars, aerVars, drvVars, slvVars, mainVars>>
    \/ SetLaySource /\ UNCHANGED <<rhVars, fxVars, aerVars, drvVars, slvVars, mainVars>>
    \/ SetLevSourceInc /\ UNCHANGED <<rhVars, fxVars, aerVars, drvVars, slvVars, mainVars>>
    \/ SetLevSourceDec /\ UNCHANGED <<rhVars, fxVars, aerVars, drvVars, slvVars, mainVars>>
    \/ ReadSource /\ UNCHANGED <<rhVars, fxVars, aerVars, drvVars, slvVars, mainVars>>

InitSrc == SrcInit /\ RhIdle /\ FxIdle /\ AerIdle /\ DrvIdle /\ SlvIdle /\ MainIdle

SpecSrc == InitSrc /\ [][NextSrc]_vars

NextMain ==
    \/ MainStepCompletes /\ UNCHANGED <<rhVars, fxVars, aerVars, drvVars, srcVars, slvVars>>
    \/ MainStepRaises /\ UNCHANGED <<rhVars, fxVars, aerVars, drvVars, srcVars, slvVars>>
    \/ MainCatchStd /\ UNCHANGED <<rhVars, fxVars, aerVars, drvVars, srcVars, slvVars>>
    \/ MainCatchAll /\ UNCHANGED <<rhVars, fxVars, aerVars, drvVars, srcVars, slvVars>>
    \/ MainReturnsZero /\ UNCHANGED <<rhVars, fxVars, aerVars, drvVars, srcVars, slvVars>>

InitMain == MainInit /\ RhIdle /\ FxIdle /\ AerIdle /\ DrvIdle /\ SrcIdle /\ SlvIdle

SpecMain == InitMain /\ [][NextMain]_vars

-----------------------------------------------------------------------------
(* The humidity-bin lookup: claims C1 - C3.                                *)

\* hum is strictly greater than every threshold of v
AboveAll(hum, v) == \A i \in 1..Len(v) : v[i] < hum

\* the smallest 1-based position of v whose threshold is not less than hum
SmallestNotLess(hum, v) ==
    LET S == { i \in 1..Len(v) : v[i] >= hum }
    IN  CHOOSE i \in S : \A j \in S : i <= j

\* the scan as a function agrees with the scan as a loop (the model's two
\* renderings of rh_class)
RhScanAgrees ==
    /\ (pc_rh = "done" /\ ~oob) => ihum = RhScan(0, rel_hum, rh2)
    /\ oob => Overruns(rel_hum, rh2)

\* C1: for a humidity strictly greater than every threshold rh_class
\* terminates with the index of the last bin and never reads a threshold
\* past the end of the list.  (Violated: the scan has no end test.)
C1_LastBinWithoutOverrun ==
    AboveAll(rel_hum, rh2) =>
        /\ ~oob
        /\ pc_rh # "crashed"
        /\ pc_rh = "done" => ihum = Len(rh2) - 1

\* C2: for a humidity not greater than the last threshold rh_class returns
\* the smallest 0-based index whose threshold is not less than the humidity,
\* reading only inside the list; thresholds [0.0, 0.5, 0.8, 0.9, 0.95, 0.99]
\* and humidity 0.85 give 3.
C2_SmallestIndexNotLess ==
    (pc_rh = "done" /\ rel_hum <= rh2[Len(rh2)]) =>
        /\ ~oob
        /\ ihum = SmallestNotLess(rel_hum, rh2) - 1
        /\ (rh2 = ExampleTable /\ rel_hum = 850) => ihum = 3

\* the example of C2 has returned
C2_Witness ==
    /\ pc_rh = "done"
    /\ rh2 = ExampleTable
    /\ rel_hum = 850
    /\ ihum = 3

\* the cells of the call's humidity field
AerCells == (1..aer_in.rh.dim[1]) \X (1..aer_in.rh.dim[2])

LastBound == aerosol.rh_upper[Len(aerosol.rh_upper)]

-----------------------------------------------------------------------------
(* Flux reduction: claims C4 - C7.  The sums of the claims are taken over   *)
(* sets, not by the kernels of the model.                                  *)

\* the sum of f[x] over the x of S
RECURSIVE SumOver(_, _)
SumOver(S, f) ==
    IF S = {} THEN 0
    ELSE LET x == CHOOSE y \in S : TRUE
         IN  f[x] + SumOver(S \ {x}, f)

\* the (column, level) pairs of the object
FluxCells == DOMAIN fluxes.flux_up.data

\* sum over every spectral point of the spectral field at (column, level) c
SpectralSum(field, c) ==
    SumOver(1..field.dim[3], [g \in 1..field.dim[3] |-> field.data[c[1], c[2], g]])

\* the spectral points the band limits of spectral_disc assign to band b
GptsOfBand(b) ==
    { g \in 1..spectral_disc.ngpt :
        /\ spectral_disc.band_lims_gpoint[b][1] <= g
        /\ g <= spectral_disc.band_lims_gpoint[b][2] }

\* sum over the spectral points of band b of the spectral field at c
BandSum(field, c, b) ==
    SumOver(GptsOfBand(b), [g \in 1..field.dim[3] |-> field.data[c[1], c[2], g]])

\* sum over every band of the by-band field at c
SumOfBands(bnd_field, c) ==
    SumOver(1..bnd_field.dim[3],
            [b \in 1..bnd_field.dim[3] |-> bnd_field.data[c[1], c[2], b]])

Bands == 1..spectral_disc.nband

\* C4: after any sequence of reduce calls flux_net = flux_dn - flux_up at
\* every (column, level), and for a Fluxes_byband bnd_flux_net =
\* bnd_flux_dn - bnd_flux_up at every (column, level, band).
C4_NetIsDownMinusUp ==
    /\ \A c \in FluxCells :
          fluxes.flux_net.data[c] = fluxes.flux_dn.data[c] - fluxes.flux_up.data[c]
    /\ fx_kind = "byband" =>
          \A idx \in DOMAIN fluxes.bnd_flux_net.data :
              fluxes.bnd_flux_net.data[idx] =
                  fluxes.bnd_flux_dn.data[idx] - fluxes.bnd_flux_up.data[idx]

\* a by-band object after a reduce with the direct field, whose net fluxes
\* are not zero
C4_Witness ==
    /\ fx_kind = "byband"
    /\ fx_last = "reduce_dir"
    /\ \E c \in FluxCells : fluxes.flux_net.data[c] # 0
    /\ \E idx \in DOMAIN fluxes.bnd_flux_net.data : fluxes.bnd_flux_net.data[idx] # 0

\* C5: after Fluxes_broadband::reduce flux_up and flux_dn (and flux_dn_dir
\* when the direct field is passed) are the unweighted sums over all
\* spectral points of their spectral arguments, at every (column, level).
C5_BroadbandIsSpectralSum ==
    fx_last # "none" =>
        \A c \in FluxCells :
            /\ fluxes.flux_up.data[c] = SpectralSum(gpt_flux_up, c)
            /\ fluxes.flux_dn.data[c] = SpectralSum(gpt_flux_dn, c)
            /\ fx_last = "reduce_dir" =>
                  fluxes.flux_dn_dir.data[c] = SpectralSum(gpt_flux_dn_dir, c)

\* a Fluxes_broadband after a reduce with the direct field over several
\* spectral points, the three spectral fields differing
C5_Witness ==
    /\ fx_kind = "broadband"
    /\ fx_last = "reduce_dir"
    /\ gpt_flux_up.dim[3] >= 2
    /\ \E c \in FluxCells :
          /\ fluxes.flux_dn_dir.data[c] # fluxes.flux_dn.data[c]
          /\ fluxes.flux_dn.data[c] # fluxes.flux_up.data[c]
          /\ fluxes.flux_dn_dir.data[c] # 0

\* C6: after Fluxes_byband::reduce bnd_flux_up and bnd_flux_dn (and
\* bnd_flux_dn_dir when the direct field is passed) are, at every (column,
\* level, band), the sums of their spectral arguments over exactly the
\* spectral points the band limits assign to the band.
C6_BybandIsSumOverBand ==
    (fx_kind = "byband" /\ fx_last # "none") =>
        \A c \in FluxCells, b \in Bands :
            /\ fluxes.bnd_flux_up.data[c[1], c[2], b] = BandSum(gpt_flux_up, c, b)
            /\ fluxes.bnd_flux_dn.data[c[1], c[2], b] = BandSum(gpt_flux_dn, c, b)
            /\ fx_last = "reduce_dir" =>
                  fluxes.bnd_flux_dn_dir.data[c[1], c[2], b] = BandSum(gpt_flux_dn_dir, c, b)

\* a Fluxes_byband after a reduce with the direct field, with several bands
\* of which one holds several spectral points and a non-zero direct sum
C6_Witness ==
    /\ fx_kind = "byband"
    /\ fx_last = "reduce_dir"
    /\ spectral_disc.nband >= 2
    /\ \E c \in FluxCells, b \in Bands :
          /\ Cardinality(GptsOfBand(b)) >= 2
          /\ fluxes.bnd_flux_dn_dir.data[c[1], c[2], b] # 0
          /\ fluxes.bnd_flux_dn_dir.data[c[1], c[2], b] # fluxes.flux_dn_dir.data[c]

\* C7: after Fluxes_byband::reduce the per-band fields summed over all bands
\* give the broadband fields the same call stored: up, down, net, and
\* direct when the direct field is passed.
C7_BandsSumToBroadband ==
    (fx_kind = "byband" /\ fx_last # "none") =>
        \A c \in FluxCells :
            /\ SumOfBands(fluxes.bnd_flux_up, c) = fluxes.flux_up.data[c]
            /\ SumOfBands(fluxes.bnd_flux_dn, c) = fluxes.flux_dn.data[c]
            /\ SumOfBands(fluxes.bnd_flux_net, c) = fluxes.flux_net.data[c]
            /\ fx_last = "reduce_dir" =>
                  SumOfBands(fluxes.bnd_flux_dn_dir, c) = fluxes.flux_dn_dir.data[c]

\* a Fluxes_byband with several bands after a reduce with the direct field,
\* whose broadband fluxes are not zero
C7_Witness ==
    /\ fx_kind = "byband"
    /\ fx_last = "reduce_dir"
    /\ spectral_disc.nband >= 2
    /\ \E c \in FluxCells :
          /\ fluxes.flux_up.data[c] # 0
          /\ fluxes.flux_net.data[c] # 0
          /\ fluxes.flux_dn_dir.data[c] # 0

-----------------------------------------------------------------------------
(* Aerosol optical properties: claims C8 - C10.  The expected values are   *)
(* sums over the set of species, read from the table at the bin the        *)
(* specification assigns to the humidity.                                  *)

\* the (column, layer, band) triples of the call
AerTriples == AerCells \X (1..aerosol.nband)

\* the 1-based bin of a humidity: the first bin whose upper bound is not
\* below it, and the last bin for a humidity above every upper bound
BinOf(hum) ==
    IF \E i \in 1..Len(aerosol.rh_upper) : aerosol.rh_upper[i] >= hum
    THEN SmallestNotLess(hum, aerosol.rh_upper)
    ELSE Len(aerosol.rh_upper)

SpeciesIdx == 1..Len(list_aerosol_types)

\* the table entry of species i at (band b, humidity bin h)
TableEntry(phobic, philic, i, b, h) ==
    LET br == SpeciesBranch(list_aerosol_types[i])
    IN  IF br.philic THEN philic.data[b, h, br.col] ELSE phobic.data[b, br.col]

\* mixing ratio x dry-air mass path x mass extinction coefficient of
\* species i at the triple t = <<(column, layer), band>>
LocalOd(t, i) ==
    LET c == t[1]
        br == SpeciesBranch(list_aerosol_types[i])
    IN  aer_in.aermr[br.aermr].data[c] * aer_in.dpg.data[c]
          * TableEntry(aerosol.mext_phobic, aerosol.mext_philic, i, t[2],
                       BinOf(aer_in.rh.data[c]))

SpeciesSsa(t, i) ==
    TableEntry(aerosol.ssa_phobic, aerosol.ssa_philic, i, t[2], BinOf(aer_in.rh.data[t[1]]))

SpeciesG(t, i) ==
    TableEntry(aerosol.g_phobic, aerosol.g_philic, i, t[2], BinOf(aer_in.rh.data[t[1]]))

ExpTau(t) == SumOver(SpeciesIdx, [i \in SpeciesIdx |-> LocalOd(t, i)])

ExpTaussa(t) == SumOver(SpeciesIdx, [i \in SpeciesIdx |-> LocalOd(t, i) * SpeciesSsa(t, i)])

ExpTaussag(t) ==
    SumOver(SpeciesIdx, [i \in SpeciesIdx |-> LocalOd(t, i) * SpeciesSsa(t, i) * SpeciesG(t, i)])

\* the three sums compute_all_from_table left at the triple t are the sums
\* over the 11 species
SumsAt(t) ==
    LET idx == <<t[1][1], t[1][2], t[2]>>
    IN  /\ aer_tmp.ltau.data[idx] = ExpTau(t)
        /\ aer_tmp.ltaussa.data[idx] = ExpTaussa(t)
        /\ aer_tmp.ltaussag.data[idx] = ExpTaussag(t)

\* C8: for every (band, layer, column) compute_all_from_table writes
\* tau = the sum over the 11 species of mixing ratio x dry-air mass path x
\* mass extinction coefficient, taussa = the sum of that x albedo, taussag =
\* the sum of that x albedo x asymmetry, one term per species.
C8_SumsOverSpecies ==
    pc_aer = "done" => \A t \in AerTriples : SumsAt(t)

\* the same while every humidity of the call is within the upper bounds
C8_InRangeSumsOverSpecies ==
    (pc_aer = "done" /\ ~AnyOverrun(aerosol, aer_in)) => \A t \in AerTriples : SumsAt(t)

\* C9: for every (column, layer, band) aerosol_optics stores tau = the
\* accumulated tau, ssa = accumulated taussa / max(accumulated tau, eps),
\* g = accumulated taussag / max(accumulated taussa, eps), and nothing else
\* clamps or floors the three outputs.
C9_StoresFlooredQuotients ==
    pc_aer = "done" =>
        \A idx \in DOMAIN aer_tmp.ltau.data :
            LET tau == aer_tmp.ltau.data[idx]
                taussa == aer_tmp.ltaussa.data[idx]
                taussag == aer_tmp.ltaussag.data[idx]
            IN  /\ optical_props.tau.data[idx] = tau
                /\ optical_props.ssa.data[idx].num = taussa
                /\ optical_props.ssa.data[idx].den = (IF tau > Eps THEN tau ELSE Eps)
                /\ optical_props.g.data[idx].num = taussag
                /\ optical_props.g.data[idx].den = (IF taussa > Eps THEN taussa ELSE Eps)

\* a call that stored a quotient over the floor (a tau below eps), a
\* quotient over the accumulated tau itself, and a negative asymmetry
C9_Witness ==
    /\ pc_aer = "done"
    /\ \E idx \in DOMAIN aer_tmp.ltau.data :
          /\ aer_tmp.ltau.data[idx] = 1
          /\ optical_props.ssa.data[idx].den = Eps
    /\ \E idx \in DOMAIN aer_tmp.ltau.data :
          /\ aer_tmp.ltaussa.data[idx] > Eps
          /\ optical_props.ssa.data[idx].den = aer_tmp.ltau.data[idx]
          /\ optical_props.g.data[idx].den = aer_tmp.ltaussa.data[idx]
          /\ optical_props.g.data[idx].num < 0

\* the target holds at the triple t what the inputs and the table give
OverwrittenAt(t) ==
    LET idx == <<t[1][1], t[1][2], t[2]>>
    IN  /\ optical_props.tau.data[idx] = ExpTau(t)
        /\ optical_props.ssa.data[idx] = FDiv(ExpTaussa(t), Max(ExpTau(t), Eps))
        /\ optical_props.g.data[idx] = FDiv(ExpTaussag(t), Max(ExpTaussa(t), Eps))

\* C10: aerosol_optics overwrites the target: after the call the tau, ssa
\* and g at every (column, layer, band) of the input extents are given by
\* the inputs of the call and the table alone, whatever the target held.
C10_TargetGivenByInputsAlone ==
    pc_aer = "done" => \A t \in AerTriples : OverwrittenAt(t)

\* the same while every humidity of the call is within the upper bounds
C10_InRangeTargetGivenByInputs ==
    (pc_aer = "done" /\ ~AnyOverrun(aerosol, aer_in)) => \A t \in AerTriples : OverwrittenAt(t)

-----------------------------------------------------------------------------
(* The column blocks of the driver: claim C11.                             *)

\* the outputs of one invocation over all the columns at once
UnblockedOut ==
    call_kernels(1, n_col, drv_in, LwOutInit(n_col),
                 Fluxes_broadband(n_col, DrvLev),
                 Fluxes_byband(n_col, DrvLev, get_nband(DrvDisc)))

\* the invocations of call_kernels that process the column col
CallsOf(col) ==
    {k \in DOMAIN drv_calls : drv_calls[k][1] <= col /\ col <= drv_calls[k][2]}

\* C11: n_col \div block full blocks and one leftover block of n_col % block
\* columns process every column 1..n_col in exactly one call_kernels
\* invocation and write every output column exactly once, for every
\* n_col >= 0, and the stored fluxes are those of any other block size.
C11_EveryColumnOnce ==
    pc_drv = "done" =>
        /\ \A col \in 1..n_col :
              /\ Cardinality(CallsOf(col)) = 1
              /\ drv_writes[col] = 1
        /\ \A k \in DOMAIN drv_calls :
              1 <= drv_calls[k][1] /\ drv_calls[k][2] <= n_col
        /\ lw_out = UnblockedOut

\* the block size of the code, a full block and a leftover block
C11_Witness ==
    /\ pc_drv = "done"
    /\ col_block = n_col_block
    /\ n_col > col_block
    /\ n_col_block_left > 0
    /\ Len(drv_calls) = n_blocks + 1
    /\ \E idx \in DOMAIN lw_out.lw_bnd_flux_net.data : lw_out.lw_bnd_flux_net.data[idx] # 0

-----------------------------------------------------------------------------
(* The ranges of the aerosol optical properties: claim C12.                *)

\* the inputs of the call and the table are within their ranges
AerInputsInRange ==
    /\ \A k \in DOMAIN aer_in.aermr : \A c \in AerCells : aer_in.aermr[k].data[c] >= 0
    /\ \A c \in AerCells : aer_in.dpg.data[c] >= 0
    /\ \A e \in DOMAIN aerosol.mext_phobic.data :
          /\ aerosol.mext_phobic.data[e] >= 0
          /\ aerosol.ssa_phobic.data[e] \in 0..1
          /\ aerosol.g_phobic.data[e] \in (0 - 1)..1
    /\ \A e \in DOMAIN aerosol.mext_philic.data :
          /\ aerosol.mext_philic.data[e] >= 0
          /\ aerosol.ssa_philic.data[e] \in 0..1
          /\ aerosol.g_philic.data[e] \in (0 - 1)..1

\* tau >= 0, 0 <= ssa <= 1 and -1 <= g <= 1 at the index idx of the target
\* (the quotients have positive denominators)
InRangeAt(idx) ==
    /\ optical_props.tau.data[idx] >= 0
    /\ optical_props.ssa.data[idx].den > 0
    /\ 0 <= optical_props.ssa.data[idx].num
    /\ optical_props.ssa.data[idx].num <= optical_props.ssa.data[idx].den
    /\ optical_props.g.data[idx].den > 0
    /\ 0 - optical_props.g.data[idx].den <= optical_props.g.data[idx].num
    /\ optical_props.g.data[idx].num <= optical_props.g.data[idx].den

\* C12: given non-negative mixing ratios, dry-air paths and extinction
\* coefficients, albedos in [0,1] and asymmetries in [-1,1], every value
\* aerosol_optics writes has tau >= 0, ssa in [0,1] and g in [-1,1], also
\* when the accumulated tau is below machine epsilon.
C12_OutputsInRange ==
    (pc_aer = "done" /\ AerInputsInRange) =>
        \A idx \in DOMAIN optical_props.tau.data : InRangeAt(idx)

\* the same while every humidity of the call is within the upper bounds
C12_InRangeOutputsInRange ==
    (pc_aer = "done" /\ AerInputsInRange /\ ~AnyOverrun(aerosol, aer_in)) =>
        \A idx \in DOMAIN optical_props.tau.data : InRangeAt(idx)

\* the inputs are within their ranges in every call enumerated
C12_InputsAlwaysInRange == pc_aer = "done" => AerInputsInRange

-----------------------------------------------------------------------------
(* Domain violations of the aerosol call: claim C13.                       *)

\* the humidity-bin lookup of some (column, layer) finds no bin
LookupExhausted ==
    \E c \in AerCells : AboveAll(aer_in.rh.data[c], aerosol.rh_upper)

\* the inputs give a negative optical depth at some (column, layer, band)
NegativeDepth == \E t \in AerTriples : ExpTau(t) < 0

\* the inputs give an albedo outside [0, 1] at some (column, layer, band)
AlbedoOutside ==
    \E t \in AerTriples : ExpTaussa(t) < 0 \/ ExpTaussa(t) > Max(ExpTau(t), Eps)

\* C13: aerosol_optics detects a domain violation at call time: when the
\* humidity-bin lookup is exhausted without a match, or the inputs give a
\* negative optical depth or an albedo outside [0,1], the call reports a
\* DomainViolation error instead of writing a result.
C13_DomainViolationReported ==
    (pc_aer # "idle" /\ (LookupExhausted \/ NegativeDepth \/ AlbedoOutside)) =>
        pc_aer = "DomainViolation"

\* a call that gives a negative optical depth returns and stores it
C13_NegativeDepthRejected ==
    (pc_aer # "idle" /\ NegativeDepth /\ ~LookupExhausted) =>
        (pc_aer # "done" /\ \A idx \in DOMAIN optical_props.tau.data :
                                optical_props.tau.data[idx] >= 0)

-----------------------------------------------------------------------------
(* Operands whose extents disagree: claim C14.                             *)

\* the operands of the reduce call made disagree in their extents
ReduceShapesDisagree ==
    fx_last # "none" /\ ~ShapesAgree(fluxes, gpt_flux_up, gpt_flux_dn, spectral_disc)

\* the operands of the aerosol_optics call made disagree in their extents
AerosolShapesDisagree ==
    pc_aer # "idle" /\ ~AerShapesAgree(aer_in, optical_props)

\* C14: a call whose operand extents disagree is rejected with a
\* ShapeMismatch error at call entry, by reduce and by aerosol_optics.
C14_ShapeMismatchReported ==
    /\ ReduceShapesDisagree => fx_last = "ShapeMismatch"
    /\ AerosolShapesDisagree => pc_aer = "ShapeMismatch"

\* on operands whose extents agree the reduce through the pointers leaves
\* what the reduce on the arrays leaves
PtrReduceAgreesOnMatchingShapes ==
    fx_last \in {"reduce", "reduce_dir"} /\ ShapesAgree(fluxes, gpt_flux_up, gpt_flux_dn, spectral_disc)
        => fluxes = (IF fx_kind = "byband"
                     THEN Fluxes_byband_reduce_ptr(fluxes, gpt_flux_up, gpt_flux_dn,
                                                   spectral_disc, 999)
                     ELSE Fluxes_broadband_reduce_ptr(fluxes, gpt_flux_up, gpt_flux_dn,
                                                      spectral_disc, 999))

\* a reduce on disagreeing operands is rejected
C14_ReduceRejected == ReduceShapesDisagree => fx_last # "reduce"

\* an aerosol_optics on disagreeing operands is rejected
C14_AerosolRejected == AerosolShapesDisagree => pc_aer # "done"

-----------------------------------------------------------------------------
(* The fields of the longwave source-function holder: claim C15.           *)

\* the field an accessor get_<field> is named after
FieldOf(accessor) ==
    CHOOSE m \in SourceMembers : accessor = "get_" \o m

\* C15: the holder has five independently addressable fields: a write
\* through one accessor changes only the field of that accessor and leaves
\* the other four unchanged, and the const and the non-const accessor of a
\* field refer to the same field.
C15_AccessorsIndependent ==
    [][ /\ src_acc' # src_acc \/ sources' # sources =>
            \A m \in SourceMembers \ {FieldOf(src_acc')} : sources'[m] = sources[m]
        /\ src_seen'.accessor # "none" =>
            /\ src_seen'.value = sources'[FieldOf(src_seen'.accessor)]
            /\ ConstAccessor(src_seen'.accessor) = NonConstAccessor(src_seen'.accessor)
      ]_vars

\* the five fields hold five values of which the two surface fields differ,
\* the last write went through get_sfc_source_jac and was read back
C15_Witness ==
    /\ src_acc = "get_sfc_source_jac"
    /\ sources["sfc_source_jac"] = MaxSrc
    /\ sources["sfc_source"] = 1
    /\ \A m \in SourceMembers \ {"sfc_source_jac"} : sources[m] = 1
    /\ src_seen = [accessor |-> "get_sfc_source_jac", value |-> MaxSrc]

-----------------------------------------------------------------------------
(* Flux reduction as a function of its arguments: claim C16.               *)

\* the fields the most recent reduce is to leave
ReducedFields ==
    {"flux_up", "flux_dn", "flux_net"}
        \cup (IF fx_last = "reduce_dir" THEN {"flux_dn_dir"} ELSE {})
        \cup (IF fx_kind = "byband"
              THEN {"bnd_flux_up", "bnd_flux_dn", "bnd_flux_net"}
                       \cup (IF fx_last = "reduce_dir" THEN {"bnd_flux_dn_dir"} ELSE {})
              ELSE {})

\* an object of the kind and the extents of fluxes, as constructed
FreshFluxes ==
    IF fx_kind = "byband"
    THEN Fluxes_byband(fluxes.flux_up.dim[1], fluxes.flux_up.dim[2],
                       get_nband(spectral_disc))
    ELSE Fluxes_broadband(fluxes.flux_up.dim[1], fluxes.flux_up.dim[2])

\* the most recent reduce, with its arguments, on the object obj
LastReduceOn(obj) ==
    IF fx_last = "reduce"
    THEN VirtualReduce(fx_kind, obj, gpt_flux_up, gpt_flux_dn, spectral_disc)
    ELSE IF fx_kind = "byband"
         THEN Fluxes_byband_reduce_dir(obj, gpt_flux_up, gpt_flux_dn, gpt_flux_dn_dir,
                                       spectral_disc)
         ELSE Fluxes_broadband_reduce_dir(fx_kind, obj, gpt_flux_up, gpt_flux_dn,
                                          gpt_flux_dn_dir, spectral_disc)

\* C16: the up, down, net (and direct) fields a reduce leaves depend on the
\* spectral arguments and the band limits alone, not on what the object held
\* or on earlier calls: they are those the call leaves on a new object, and
\* the same call once more leaves the object as it is.
C16_ReduceIsPure ==
    fx_last # "none" =>
        /\ \A f \in ReducedFields : fluxes[f] = LastReduceOn(FreshFluxes)[f]
        /\ LastReduceOn(fluxes) = fluxes

\* a by-band object that an earlier reduce with the direct field had filled,
\* after a reduce without it
C16_Witness ==
    /\ fx_kind = "byband"
    /\ fx_last = "reduce"
    /\ \E idx \in DOMAIN fluxes.bnd_flux_dn_dir.data : fluxes.bnd_flux_dn_dir.data[idx] # 0
    /\ \E c \in FluxCells : fluxes.flux_up.data[c] # 0 /\ fluxes.flux_net.data[c] # 0

-----------------------------------------------------------------------------
(* Independence of the (column, layer, band) triples: claim C17.           *)

\* the arguments of the call at the (column, layer) c alone
CellArgs(c) ==
    [aermr |-> [k \in DOMAIN aer_in.aermr |->
                   Array2(1, 1, [i \in {1}, j \in {1} |-> aer_in.aermr[k].data[c]])],
     rh    |-> Array2(1, 1, [i \in {1}, j \in {1} |-> aer_in.rh.data[c]]),
     dpg   |-> Array2(1, 1, [i \in {1}, j \in {1} |-> aer_in.dpg.data[c]])]

\* the entries of the table for the band b alone
BandTable(b) ==
    LET nhum == Len(aerosol.rh_upper)
        nphobic == aerosol.mext_phobic.dim[2]
        nphilic == aerosol.mext_philic.dim[3]
        phobic(table) == Array2(1, nphobic,
                                [i \in {1}, col \in 1..nphobic |-> table.data[b, col]])
        philic(table) == Array3(1, nhum, nphilic,
                                [i \in {1}, h \in 1..nhum, col \in 1..nphilic |->
                                    table.data[b, h, col]])
    IN  [rh_upper    |-> aerosol.rh_upper,
         nband       |-> 1,
         mext_phobic |-> phobic(aerosol.mext_phobic),
         ssa_phobic  |-> phobic(aerosol.ssa_phobic),
         g_phobic    |-> phobic(aerosol.g_phobic),
         mext_philic |-> philic(aerosol.mext_philic),
         ssa_philic  |-> philic(aerosol.ssa_philic),
         g_philic    |-> philic(aerosol.g_philic)]

\* what a call on the (column, layer) and the band of t alone stores
AloneAt(t) ==
    StoreOptics(1, 1, 1,
                compute_all_from_table(1, 1, 1, BandTable(t[2]), CellArgs(t[1]), NoGarbage),
                PriorProps(0, 1, 1, 1))

\* the target holds at t what the call on t alone stores
IndependentAt(t) ==
    LET idx == <<t[1][1], t[1][2], t[2]>>
        one == <<1, 1, 1>>
    IN  /\ optical_props.tau.data[idx] = AloneAt(t).tau.data[one]
        /\ optical_props.ssa.data[idx] = AloneAt(t).ssa.data[one]
        /\ optical_props.g.data[idx] = AloneAt(t).g.data[one]

\* C17: the tau, ssa and g written at (icol, ilay, ibnd) depend only on the
\* 11 mixing ratios, the humidity and the dry-air path at (icol, ilay) and
\* on the table entries of band ibnd: they are what a call on that column,
\* layer and band alone stores, whatever the other columns and layers hold.
C17_TriplesIndependent ==
    pc_aer = "done" => \A t \in AerTriples : IndependentAt(t)

\* the same while every humidity of the call is within the upper bounds
C17_InRangeTriplesIndependent ==
    (pc_aer = "done" /\ ~AnyOverrun(aerosol, aer_in)) =>
        \A t \in AerTriples : IndependentAt(t)

\* a call with several columns or layers of different inputs was made
C17_SeveralCells ==
    /\ pc_aer = "done"
    /\ ~AnyOverrun(aerosol, aer_in)
    /\ \E c1, c2 \in AerCells :
          optical_props.tau.data[c1[1], c1[2], 1] # optical_props.tau.data[c2[1], c2[2], 1]

-----------------------------------------------------------------------------
(* The shortwave solver on a column that is not illuminated: claim C18.    *)

SwLevels == 1..(sw_in.nlay + 1)

\* the columns of the call with mu0 = 0
UnlitColumns == {icol \in 1..sw_in.ncol : sw_in.mu0[icol] = Flt(0, 1)}

-----------------------------------------------------------------------------
(* The longwave solver on one isothermal layer: claim C19.                 *)

\* the case of the claim: one column, one layer of optical depth 1 and of
\* the source 100 at the layer and both levels, a surface of emissivity 1
\* and source 100, one angle of secant 1.66 and weight 1, nothing incident
EndToEndCase ==
    /\ lw_in.ncol = 1
    /\ lw_in.nlay = 1
    /\ lw_in.tau[1, 1] = 1
    /\ lw_in.lay_source[1, 1] = 100
    /\ lw_in.lev_source_inc[1, 1] = 100
    /\ lw_in.lev_source_dec[1, 1] = 100
    /\ lw_in.sfc_emis[1] = 1
    /\ lw_in.sfc_src[1] = 100
    /\ lw_in.secants = <<1>>
    /\ lw_in.weights = <<1>>
    /\ lw_in.inc_flux[1] = 0

\* C19: in the case of the claim the solver gives the downward flux
\* 100 * (1 - exp(-1.66)) = 100 - 100 * T at the surface and the upward flux
\* 100, the surface source, at the surface.
C19_IsothermalLayer ==
    (pc_lw = "done" /\ EndToEndCase) =>
        /\ lw_flux.flux_dn[1, 2] = <<100, 0 - 100>>
        /\ lw_flux.flux_up[1, 2] = <<100>>

\* the case of the claim has been solved
C19_Witness ==
    pc_lw = "done" /\ EndToEndCase /\ lw_flux.flux_dn[1, 2] # lw_flux.flux_up[1, 2]

-----------------------------------------------------------------------------
(* The species of the mixing-ratio fields: claim C20.                      *)

\* the table column of every mixing-ratio field aermrNN, as the claim
\* lists them
HydrophilicColumn == (1 :> 1) @@ (2 :> 2) @@ (3 :> 3) @@ (7 :> 4) @@ (11 :> 5)

HydrophobicColumn ==
    (4 :> 1) @@ (5 :> 8) @@ (6 :> 6) @@ (8 :> 10) @@ (9 :> 11) @@ (10 :> 11)

MixingRatioFields == DOMAIN HydrophilicColumn \cup DOMAIN HydrophobicColumn

\* the entry of a table pair for the field k at band b and humidity bin h
FieldEntry(phobic, philic, k, b, h) ==
    IF k \in DOMAIN HydrophilicColumn THEN philic.data[b, h, HydrophilicColumn[k]]
    ELSE phobic.data[b, HydrophobicColumn[k]]

\* the three terms of the field k at the triple t for the humidity bin h
FieldTerms(t, k, h) ==
    LET od == aer_in.aermr[k].data[t[1]] * aer_in.dpg.data[t[1]]
                * FieldEntry(aerosol.mext_phobic, aerosol.mext_philic, k, t[2], h)
        ssa == FieldEntry(aerosol.ssa_phobic, aerosol.ssa_philic, k, t[2], h)
        g == FieldEntry(aerosol.g_phobic, aerosol.g_philic, k, t[2], h)
    IN  [tau |-> od, taussa |-> od * ssa, taussag |-> od * ssa * g]

\* the sums at t are one term of every field in S, read at the bin h
FieldSumsAt(t, S, h) ==
    LET idx == <<t[1][1], t[1][2], t[2]>>
    IN  /\ aer_tmp.ltau.data[idx] = SumOver(S, [k \in S |-> FieldTerms(t, k, h).tau])
        /\ aer_tmp.ltaussa.data[idx] = SumOver(S, [k \in S |-> FieldTerms(t, k, h).taussa])
        /\ aer_tmp.ltaussag.data[idx] = SumOver(S, [k \in S |-> FieldTerms(t, k, h).taussag])

\* the humidity bin the lookup gave for the (column, layer) c is a bin of
\* the table
BinInTable(c) == aer_ihum.data[c] \in 1..Len(aerosol.rh_upper)

\* no hydrophilic species is present at the (column, layer) c
OnlyHydrophobic(c) == \A k \in DOMAIN HydrophilicColumn : aer_in.aermr[k].data[c] = 0

\* C20: the mapping from the mixing-ratio fields to the table columns is
\* fixed and total.  Each of aermr01..aermr11 enters the sums of a (band,
\* layer, column) once; fields 01, 02, 03, 07, 11 with the hydrophilic
\* columns 1, 2, 3, 4, 5 at the humidity bin of the (column, layer), fields
\* 04, 05, 06, 08, 09, 10 with the hydrophobic columns 1, 8, 6, 10, 11, 11;
\* and what the hydrophobic species contribute is the same at every
\* humidity.
C20_SpeciesMapping ==
    pc_aer = "done" =>
        /\ MixingRatioFields = 1..Len(list_aerosol_types)
        /\ DOMAIN HydrophilicColumn \cap DOMAIN HydrophobicColumn = {}
        /\ \A t \in AerTriples :
              /\ BinInTable(t[1]) =>
                    FieldSumsAt(t, MixingRatioFields, aer_ihum.data[t[1]])
              /\ OnlyHydrophobic(t[1]) => FieldSumsAt(t, DOMAIN HydrophobicColumn, 1)

\* a call that returned with every species present in a (column, layer) and
\* with a humidity in a bin after the first
C20_Witness ==
    /\ pc_aer = "done"
    /\ \E t \in AerTriples :
          /\ BinInTable(t[1])
          /\ aer_ihum.data[t[1]] > 1
          /\ aer_in.dpg.data[t[1]] > 0
          /\ \A k \in MixingRatioFields : aer_in.aermr[k].data[t[1]] > 0

\* a call that returned with hydrophobic species alone at a humidity above
\* every upper bound
C20_HydrophobicAboveAll ==
    /\ pc_aer = "done"
    /\ \E t \in AerTriples :
          /\ ~BinInTable(t[1])
          /\ OnlyHydrophobic(t[1])
          /\ aer_tmp.ltau.data[t[1][1], t[1][2], t[2]] > 0

-----------------------------------------------------------------------------
(* The reduce overloads with and without the direct field: claims C21, C22. *)

\* the fields of the object other than the direct ones
UpDownNetFields ==
    {"flux_up", "flux_dn", "flux_net"}
        \cup (IF fx_kind = "byband"
              THEN {"bnd_flux_up", "bnd_flux_dn", "bnd_flux_net"} ELSE {})

\* the direct fields of the object
DirectFields ==
    {"flux_dn_dir"} \cup (IF fx_kind = "byband" THEN {"bnd_flux_dn_dir"} ELSE {})

\* the direct fields of obj are the sums of the spectral field dir
DirectSetFrom(obj, dir) ==
    /\ \A c \in FluxCells : obj.flux_dn_dir.data[c] = SpectralSum(dir, c)
    /\ fx_kind = "byband" =>
          \A c \in FluxCells : \A b \in Bands :
              obj.bnd_flux_dn_dir.data[c[1], c[2], b] = BandSum(dir, c, b)

\* C21: for the same gpt_flux_up, gpt_flux_dn and spectral_disc the reduce
\* taking gpt_flux_dn_dir leaves on the object exactly the up, down and net
\* fields (broadband, and per band for a Fluxes_byband) that the reduce
\* without it leaves on the same object, and besides sets the direct
\* field(s) to the sums of gpt_flux_dn_dir.
C21_OverloadsAgree ==
    [][fx_last' = "reduce_dir" =>
          LET without == VirtualReduce(fx_kind, fluxes, gpt_flux_up', gpt_flux_dn',
                                       spectral_disc)
          IN  /\ DOMAIN fluxes' = UpDownNetFields \cup DirectFields
              /\ \A f \in UpDownNetFields : fluxes'[f] = without[f]
              /\ DirectSetFrom(fluxes', gpt_flux_dn_dir')]_vars

\* a by-band object after a reduce with a direct field that is not the down
\* field, over several bands
C21_Witness ==
    /\ fx_kind = "byband"
    /\ fx_last = "reduce_dir"
    /\ spectral_disc.nband > 1
    /\ \E idx \in DOMAIN fluxes.bnd_flux_dn.data :
          /\ fluxes.bnd_flux_dn_dir.data[idx] # fluxes.bnd_flux_dn.data[idx]
          /\ fluxes.bnd_flux_dn_dir.data[idx] # 0
          /\ fluxes.bnd_flux_up.data[idx] # 0

\* C22: a reduce without the direct-beam argument leaves flux_dn_dir (and
\* bnd_flux_dn_dir of a Fluxes_byband) as the object held them before the
\* call, while up and down hold the sums of the spectral fields of this call
\* and net their difference.
C22_DirectFieldsKept ==
    [][fx_last' = "reduce" =>
          /\ \A f \in DirectFields : fluxes'[f] = fluxes[f]
          /\ \A c \in FluxCells :
                /\ fluxes'.flux_up.data[c] = SpectralSum(gpt_flux_up', c)
                /\ fluxes'.flux_dn.data[c] = SpectralSum(gpt_flux_dn', c)
                /\ fluxes'.flux_net.data[c] =
                       SpectralSum(gpt_flux_dn', c) - SpectralSum(gpt_flux_up', c)]_vars

\* after a reduce with a direct field and then a reduce without one: the
\* direct fields hold the sums of the earlier call, the up field the
\* different sums of the later one
C22_Witness ==
    /\ fx_last = "reduce"
    /\ \A f \in DirectFields : \E idx \in DOMAIN fluxes[f].data : fluxes[f].data[idx] # 0
    /\ \E c \in FluxCells :
          /\ fluxes.flux_dn_dir.data[c] = SpectralSum(gpt_flux_dn_dir, c)
          /\ fluxes.flux_dn.data[c] # fluxes.flux_dn_dir.data[c]
          /\ fluxes.flux_up.data[c] # 0

-----------------------------------------------------------------------------
(* A (column, layer) without aerosol: claim C23.                           *)

\* every one of the 11 mixing ratios, or the dry-air path, is zero at c
NoAerosolAt(c) ==
    \/ \A k \in DOMAIN aer_in.aermr : aer_in.aermr[k].data[c] = 0
    \/ aer_in.dpg.data[c] = 0

\* the target holds tau = 0, ssa = 0 and g = 0 in every band at c, the two
\* quotients over a divisor that is not zero
ZerosAt(c) ==
    \A b \in 1..aerosol.nband :
        LET idx == <<c[1], c[2], b>>
        IN  /\ optical_props.tau.data[idx] = 0
            /\ optical_props.ssa.data[idx].num = 0
            /\ optical_props.ssa.data[idx].den # 0
            /\ optical_props.g.data[idx].num = 0
            /\ optical_props.g.data[idx].den # 0

\* C23: when every one of the 11 mixing ratios (or the dry-air path) at a
\* (column, layer) is zero, a call of aerosol_optics writes optical depth 0,
\* albedo 0 and asymmetry 0 for every band at that (column, layer), with no
\* division by zero.
C23_NoAerosolWritesZeros ==
    pc_aer # "idle" => \A c \in AerCells : NoAerosolAt(c) => ZerosAt(c)

\* the same for the calls in which every humidity is within the upper bounds
C23_InRangeNoAerosolWritesZeros ==
    (pc_aer # "idle" /\ ~AnyOverrun(aerosol, aer_in)) =>
        (pc_aer = "done" /\ \A c \in AerCells : NoAerosolAt(c) => ZerosAt(c))

\* a call that returned over a target that held other values, with no
\* aerosol at a (column, layer) and a humidity within the upper bounds
C23_InRangeCase ==
    /\ pc_aer = "done"
    /\ ~AnyOverrun(aerosol, aer_in)
    /\ \E c \in AerCells :
          /\ NoAerosolAt(c)
          /\ ZerosAt(c)
          /\ optical_props.ssa.data[c[1], c[2], 1].den = Eps

-----------------------------------------------------------------------------
(* The exit status of main: claim C24.                                     *)

\* the message the handlers print for the exception e
HandlerMessage(e) ==
    IF e.kind = "std::exception" THEN <<"EXCEPTION: %s\n", e.what>>
    ELSE <<"UNHANDLED EXCEPTION!\n", "">>

\* the steps executed are the first steps of the run, in order
DoneIsPrefix == main_done = SubSeq(RunSteps(main_n), 1, Len(main_done))

\* what holds of main in every state of a run
ExitStatusAt ==
    /\ main_ret \in {NoReturn, 0, 1}
    /\ main_ret # NoReturn <=> main_pc = "returned"
    /\ DoneIsPrefix
    /\ main_ret = 0 => (main_exc = NoException /\ main_done = RunSteps(main_n))
    /\ main_exc # NoException =>
          /\ main_ret # 0
          /\ Len(main_done) < Len(RunSteps(main_n))
          /\ main_pc = "returned" =>
                /\ main_ret = 1
                /\ main_out # <<>>
                /\ main_out[Len(main_out)] = HandlerMessage(main_exc)
    /\ main_ret = 1 => main_exc # NoException

\* C24: main returns 1 whenever master.start, master.init or solve_radiation
\* raises an exception (a std::exception or any other), after printing a
\* message, and returns 0 only when they complete without one; once an
\* exception is raised no later step of the run (a further block, saving the
\* output) is executed.
C24_ExitStatus ==
    /\ [](main_pc # "idle" => ExitStatusAt)
    /\ [][main_exc # NoException =>
             (main_done' = main_done /\ main_exc' = main_exc)]_vars

\* a run that returned 1 for an exception that is no std::exception, raised
\* by a call_kernels invocation after an earlier one had run to its end
C24_Witness ==
    /\ main_pc = "returned"
    /\ main_ret = 1
    /\ main_exc.kind = "other"
    /\ main_done # <<>>
    /\ main_done[Len(main_done)] = "call_kernels"
    /\ RunSteps(main_n)[main_next] = "call_kernels"
    /\ main_out[Len(main_out)] = <<"UNHANDLED EXCEPTION!\n", "">>

\* a run that returned 0 after every step, the blocks and the saving of the
\* output included
C24_NormalExit ==
    /\ main_pc = "returned"
    /\ main_ret = 0
    /\ main_n = MaxMainBlocks
    /\ main_done = RunSteps(main_n)
    /\ Len(main_out) = 2

=============================================================================
